---- MODULE Spec2Model ----
(***************************************************************************)
(* A model of the distributed striped storage emulation: the coordinator   *)
(* (manager.py), the striping helpers (utils.py) and the client write path *)
(* (user.py).                                                              *)
(*                                                                         *)
(* Conventions.  A Python dict is a sequence of records with a "name"      *)
(* field, in insertion order (dict iteration order is insertion order and  *)
(* configure_dss / copy_file / list_files depend on it).  A request is the *)
(* command token and the list of argument tokens that decode_message       *)
(* yields; every token is a string.  A response is a record: status is     *)
(* SUCCESS, FAILURE or EXCEPTION (the handler raised: handle_client closes *)
(* the connection and sends nothing), parts are the tokens that follow the *)
(* status, lines are the lines of a listing.                               *)
(***************************************************************************)
EXTENDS Integers, Sequences, FiniteSets, TLC

VARIABLES
    users,        \* DSS_Manager.users
    disks,        \* DSS_Manager.disks
    dss_configs,  \* DSS_Manager.dss_configs
    files,        \* DSS_Manager.files
    last,         \* the request handled last: [cmd, args]
    resp,         \* the response to it
    completed,    \* history: latest successful copy-complete per (dss, file)
    steps,        \* number of requests handled
    total_disks,  \* get_disk_for_stripe: its argument total_disks
    next_stripe,  \* get_disk_for_stripe: the next stripe_num to apply it to
    parity_slots, \* get_disk_for_stripe: the results so far, oldest first
    copy_pc,      \* perform_copy_operation: where the operation stands
    copy_data,    \* perform_copy_operation: file_data
    copy_n,       \* perform_copy_operation: n
    copy_unit,    \* perform_copy_operation: striping_unit
    stripe_num,   \* perform_copy_operation: the loop variable
    transfers,    \* perform_copy_operation: write_block calls of the last stripe
    results,      \* perform_copy_operation: results of those calls
    copy_dss,     \* perform_copy_operation: dss_name
    copy_name,    \* perform_copy_operation: file_name
    copy_disks,   \* perform_copy_operation: disk_info
    client,       \* user.py: the client's operation in progress and its locals
    threads,      \* perform_copy_operation: the write_block threads started
    other,        \* user.py: a second client's operation in progress
    lock,         \* DSS_Manager.lock: the connection holding it, 0 when free
    conns,        \* the handle_client threads of the coordinator
    failed,       \* DSS_Disk.failed of each node
    storage,      \* the storage directory of each node
    node_lock,    \* DSS_Disk.lock of one node: the handler holding it, or 0
    handlers,     \* the handle_command_client threads of that node
    served,       \* number of requests that node has answered
    unread        \* per node: commands received after a request, not yet read

mvars == <<users, disks, dss_configs, files, last, resp, completed, steps>>

pvars == <<total_disks, next_stripe, parity_slots>>

wvars == <<copy_pc, copy_data, copy_n, copy_unit, stripe_num, transfers,
           results, copy_dss, copy_name, copy_disks>>

cvars == <<lock, conns>>

nvars == <<failed, storage, node_lock, handlers, served, unread>>

uvars == <<client>>

tvars == <<threads>>

ovars == <<other>>

vars == <<mvars, pvars, wvars, cvars, nvars, uvars, tvars, ovars>>

\* What an action of one part of the model leaves alone.
except_manager == <<pvars, wvars, cvars, nvars, uvars, tvars, ovars>>

except_manager_conns == <<pvars, wvars, nvars, uvars, tvars, ovars>>

except_parity == <<mvars, wvars, cvars, nvars, uvars, tvars, ovars>>

except_copy == <<mvars, pvars, cvars, nvars, uvars, tvars, ovars>>

except_nodes == <<mvars, pvars, wvars, cvars, uvars, tvars, ovars, unread>>

\* What no operation of the client touches.
except_client == <<pvars, cvars, tvars, ovars>>

\* What no operation of the second client touches.
except_other == <<pvars, cvars, tvars, uvars>>

except_copy_nodes == <<mvars, pvars, cvars, uvars, tvars, ovars>>

cstate == <<users, disks, dss_configs, files>>

(***************************************************************************)
(* Bounds of the model.                                                    *)
(***************************************************************************)
MaxSteps == 6
MaxCopyDisks == 4
MaxHandlers == 2
MaxNodeRequests == 3
MaxBlockLen == 1

MaxArraySteps == 5

SpareDisks == 3

MaxOtherCommands == 2

MaxOps == 2
MaxStoreDisks == 3
MaxRaceOps == 1
MaxRaceFileLen == 1
MaxRaceFaults == 1

(***************************************************************************)
(* utils.py: return codes.                                                 *)
(***************************************************************************)
SUCCESS == "SUCCESS"
FAILURE == "FAILURE"
EXCEPTION == "EXCEPTION"

(***************************************************************************)
(* Python builtins: str(int), int(str), dict operations.                   *)
(***************************************************************************)
Digits == <<"0", "1", "2", "3", "4", "5", "6", "7", "8", "9">>

RECURSIVE str(_)
str(i) ==
    IF i < 0 THEN "-" \o str(-i)
    ELSE IF i < 10 THEN Digits[i + 1]
    ELSE str(i \div 10) \o Digits[(i % 10) + 1]

\* The integers whose decimal tokens occur in the requests of the model.
NumValues ==
    {-1, 0, 1, 2, 3, 4, 5, 8, 64, 128, 192, 256, 300, 1000, 7000, 9001, 1048576,
     2097152}
    \cup {9000 + i : i \in 1..(MaxCopyDisks + SpareDisks)}

\* Numeric tokens: the canonical decimal forms, and one with a leading zero.
IntTable ==
    [t \in {str(v) : v \in NumValues} \cup {"03"} |->
        IF t = "03" THEN 3 ELSE CHOOSE v \in NumValues : str(v) = t]

IsNumeric(tok) == tok \in DOMAIN IntTable

\* int(tok); the caller checks IsNumeric first (int raises ValueError otherwise).
int(tok) == IntTable[tok]

DictHas(d, key) == \E i \in 1..Len(d) : d[i].name = key

DictGet(d, key) == d[CHOOSE i \in 1..Len(d) : d[i].name = key]

DictKeys(d) == [i \in 1..Len(d) |-> d[i].name]

\* d[rec.name] = rec: an existing key keeps its position, a new one is appended.
DictSet(d, rec) ==
    IF DictHas(d, rec.name)
    THEN [i \in 1..Len(d) |-> IF d[i].name = rec.name THEN rec ELSE d[i]]
    ELSE Append(d, rec)

\* del d[key]
DictDel(d, key) == SelectSeq(d, LAMBDA e : e.name # key)

SeqToSet(s) == {s[i] : i \in 1..Len(s)}

RECURSIVE Flatten(_)
Flatten(ss) == IF ss = <<>> THEN <<>> ELSE Head(ss) \o Flatten(Tail(ss))

RECURSIVE BitAnd(_, _)
BitAnd(a, b) ==
    IF a <= 0 \/ b <= 0 THEN 0
    ELSE (a % 2) * (b % 2) + 2 * BitAnd(a \div 2, b \div 2)

(***************************************************************************)
(* The requests the environment sends.                                     *)
(***************************************************************************)
DiskNames == {"d1", "d2", "d3", "d4"}
DssNames == {"A", "B"}
FileNames == {"f1", "f2"}
Owners == {"alice", "bob"}
LongName == "a_sixteen_chars_"
Addr == "127.0.0.1"

RegisterUserArgs ==
    {<<u, Addr, "7000", "9001">> : u \in {"alice", LongName}}
    \cup {<<"alice", Addr, "7000">>, <<"bob", Addr, "x", "9001">>}

RegisterDiskArgs ==
    {<<d, Addr, "7000", "9001">> : d \in DiskNames}
    \cup {<<"d1", Addr, "7000">>, <<"d1", Addr, "7000", "x">>}

ConfigureArgs ==
    {<<a, n, "128">> : a \in DssNames, n \in {"3", "4"}}
    \cup {<<"A", "3", u>> : u \in {"64", "192", "1048576", "2097152", "x"}}
    \cup {<<"B", "03", "256">>, <<"A", "2", "128">>, <<"A", "x", "128">>,
          <<"A", "3">>}

CopyArgs ==
    {<<"f1", "1000", "alice">>, <<"f2", "0", "bob">>,
     <<"f1", "x", "alice">>, <<"f1", "1000">>}

CopyCompleteArgs ==
    {<<a, f, "alice", "1000">> : a \in DssNames, f \in FileNames}
    \cup {<<a, f, "bob", "0">> : a \in DssNames, f \in FileNames}
    \cup {<<"A", "f1", "alice", "x">>, <<"A", "f1", "alice">>}

ReadArgs ==
    {<<"A", f, u>> : f \in FileNames, u \in Owners}
    \cup {<<"B", "f1", "alice">>, <<"A", "f1">>}

ReadCompleteArgs == {<<"A", "f1", "alice">>, <<>>}

DssArgs == {<<a>> : a \in DssNames} \cup {<<>>}

DiskArgs == {<<d>> : d \in DiskNames} \cup {<<>>}

(***************************************************************************)
(* Responses.                                                              *)
(***************************************************************************)
Response(status, parts, lines) ==
    [status |-> status, parts |-> parts, lines |-> lines]

Fail == Response(FAILURE, <<>>, <<>>)
Ok == Response(SUCCESS, <<>>, <<>>)
Raise == Response(EXCEPTION, <<>>, <<>>)

(***************************************************************************)
(* manager.py: DSS_Manager.  Every handler runs inside process_command's   *)
(* "with self.lock", so one handler is one atomic step.                    *)
(***************************************************************************)
Reply(r) == resp' = r

NoChange == UNCHANGED cstate

register_user(args) ==
    IF Len(args) # 4 THEN Reply(Fail) /\ NoChange
    ELSE LET user_name == args[1]
             ipv4_addr == args[2]
             m_port == args[3]
             c_port == args[4]
         IN  IF DictHas(users, user_name) THEN Reply(Fail) /\ NoChange
             ELSE IF Len(user_name) > 15 THEN Reply(Fail) /\ NoChange
             ELSE IF ~IsNumeric(m_port) \/ ~IsNumeric(c_port)
                  THEN Reply(Raise) /\ NoChange
             ELSE /\ users' = DictSet(users, [name |-> user_name,
                                              address |-> ipv4_addr,
                                              m_port |-> int(m_port),
                                              c_port |-> int(c_port)])
                  /\ UNCHANGED <<disks, dss_configs, files>>
                  /\ Reply(Ok)

\* Variant: a duplicate registration is refused but replaces the record.
register_disk_overwrite(args) ==
    IF Len(args) # 4 THEN Reply(Fail) /\ NoChange
    ELSE IF ~IsNumeric(args[3]) \/ ~IsNumeric(args[4])
         THEN Reply(Raise) /\ NoChange
    ELSE /\ disks' = DictSet(disks, [name |-> args[1], address |-> args[2],
                                     m_port |-> int(args[3]),
                                     c_port |-> int(args[4]),
                                     state |-> "Free"])
         /\ UNCHANGED <<users, dss_configs, files>>
         /\ IF DictHas(disks, args[1]) THEN Reply(Fail) ELSE Reply(Ok)

register_disk(args) ==
    IF Len(args) # 4 THEN Reply(Fail) /\ NoChange
    ELSE LET disk_name == args[1]
             ipv4_addr == args[2]
             m_port == args[3]
             c_port == args[4]
         IN  IF DictHas(disks, disk_name) THEN Reply(Fail) /\ NoChange
             ELSE IF ~IsNumeric(m_port) \/ ~IsNumeric(c_port)
                  THEN Reply(Raise) /\ NoChange
             ELSE /\ disks' = DictSet(disks, [name |-> disk_name,
                                              address |-> ipv4_addr,
                                              m_port |-> int(m_port),
                                              c_port |-> int(c_port),
                                              state |-> "Free"])
                  /\ UNCHANGED <<users, dss_configs, files>>
                  /\ Reply(Ok)

\* dss_name in self.dss_configs
dss_exists(dss_name) == DictHas(dss_configs, dss_name)

invalid_n(n) == n < 3

\* Variant: the lower limit excluded.
invalid_striping_unit_strict(striping_unit) ==
    striping_unit <= 128 \/ striping_unit > 1048576

invalid_striping_unit(striping_unit) ==
    striping_unit < 128 \/ striping_unit > 1048576

not_power_of_two(striping_unit) ==
    ~(BitAnd(striping_unit, striping_unit - 1) = 0)

free_disks == DictKeys(SelectSeq(disks, LAMBDA info : info.state = "Free"))

\* Variant: free_disks[:n-1]
selected_disks_short(free, n) == SubSeq(free, 1, n - 1)

\* free_disks[:n]
selected_disks(free, n) == SubSeq(free, 1, n)

\* Variant: every Free disk is marked, not only the selected ones.
mark_selected_all(selected) ==
    [i \in 1..Len(disks) |-> [disks[i] EXCEPT !.state = "InDSS"]]

\* for disk_name in selected_disks: self.disks[disk_name]['state'] = 'InDSS'
mark_selected(selected) ==
    [i \in 1..Len(disks) |->
        IF disks[i].name \in SeqToSet(selected)
        THEN [disks[i] EXCEPT !.state = "InDSS"] ELSE disks[i]]

configure_dss(args) ==
    IF Len(args) # 3 THEN Reply(Fail) /\ NoChange
    ELSE IF ~IsNumeric(args[2]) \/ ~IsNumeric(args[3])
         THEN Reply(Raise) /\ NoChange
    ELSE LET dss_name == args[1]
             n == int(args[2])
             striping_unit == int(args[3])
         IN  IF invalid_n(n) THEN Reply(Fail) /\ NoChange
             ELSE IF invalid_striping_unit(striping_unit)
                  THEN Reply(Fail) /\ NoChange
             ELSE IF not_power_of_two(striping_unit)
                  THEN Reply(Fail) /\ NoChange
             ELSE IF dss_exists(dss_name) THEN Reply(Fail) /\ NoChange
             ELSE IF Len(free_disks) < n THEN Reply(Fail) /\ NoChange
             ELSE LET disk_order == selected_disks(free_disks, n)
                  IN  /\ disks' = mark_selected(disk_order)
                      /\ dss_configs' =
                            DictSet(dss_configs,
                                    [name |-> dss_name, n |-> n,
                                     striping_unit |-> striping_unit,
                                     disk_order |-> disk_order])
                      /\ files' = DictSet(files, [name |-> dss_name,
                                                  entries |-> <<>>])
                      /\ UNCHANGED users
                      /\ Reply(Ok)

\* One line of the listing: the array's descriptor line, or a file's line
\* ("  {file_name} {size} B {owner}"), as the fields the text is built from.
dss_line(config) ==
    [kind |-> "dss", name |-> config.name, n |-> str(config.n),
     disk_names |-> config.disk_order,
     striping_unit |-> str(config.striping_unit)]

file_line(dss_name, file_info) ==
    [kind |-> "file", dss |-> dss_name, name |-> file_info.name,
     size |-> str(file_info.size), owner |-> file_info.owner]

list_lines ==
    Flatten([i \in 1..Len(dss_configs) |->
        LET config == dss_configs[i]
        IN  <<dss_line(config)>> \o
            (IF DictHas(files, config.name)
             THEN LET dir == DictGet(files, config.name).entries
                  IN  [j \in 1..Len(dir) |-> file_line(config.name, dir[j])]
             ELSE <<>>)])

list_files(args) ==
    /\ NoChange
    /\ IF Len(args) # 0 THEN Reply(Fail)
       ELSE IF dss_configs = <<>> THEN Reply(Fail)
       ELSE Reply(Response(SUCCESS, <<>>, list_lines))

\* self.disks[disk_name] succeeds for every disk of the order (else KeyError)
all_registered(disk_order) ==
    \A i \in 1..Len(disk_order) : DictHas(disks, disk_order[i])

\* the (name, address, c_port) triples appended in disk-order
disk_parts(disk_order) ==
    Flatten([i \in 1..Len(disk_order) |->
        LET disk_info == DictGet(disks, disk_order[i])
        IN  <<disk_order[i], disk_info.address, str(disk_info.c_port)>>])

\* self.files[dss_name][file_name] = {'size': ..., 'owner': ...}
put_file(directory, dss_name, file_name, file_size, owner) ==
    DictSet(directory,
            [name |-> dss_name,
             entries |-> DictSet(DictGet(directory, dss_name).entries,
                                 [name |-> file_name, size |-> file_size,
                                  owner |-> owner])])

\* Variant: the entry is stored at copy-initiation.
copy_file_directory_early(dss_name, file_name, file_size, owner) ==
    put_file(files, dss_name, file_name, file_size, owner)

\* copy_file leaves the file directory alone: the entry waits for copy-complete
copy_file_directory(dss_name, file_name, file_size, owner) == files

copy_file(args) ==
    IF Len(args) # 3 THEN Reply(Fail) /\ NoChange
    ELSE IF ~IsNumeric(args[2]) THEN Reply(Raise) /\ NoChange
    ELSE LET file_name == args[1]
             file_size == int(args[2])
             owner == args[3]
         IN  IF dss_configs = <<>> THEN Reply(Fail) /\ NoChange
             ELSE LET dss_name == DictKeys(dss_configs)[1]
                      config == DictGet(dss_configs, dss_name)
                  IN  /\ files' = copy_file_directory(dss_name, file_name,
                                                      file_size, owner)
                      /\ UNCHANGED <<users, disks, dss_configs>>
                      /\ IF ~all_registered(config.disk_order)
                         THEN Reply(Raise)
                         ELSE Reply(Response(SUCCESS,
                                  <<dss_name, str(file_size), str(config.n),
                                    str(config.striping_unit),
                                    str(Len(config.disk_order))>>
                                  \o disk_parts(config.disk_order), <<>>))

copy_complete(args) ==
    IF Len(args) # 4 THEN Reply(Fail) /\ NoChange
    ELSE LET dss_name == args[1]
             file_name == args[2]
             owner == args[3]
             file_size == args[4]
             opened == IF DictHas(files, dss_name) THEN files
                       ELSE DictSet(files, [name |-> dss_name,
                                            entries |-> <<>>])
         IN  IF ~dss_exists(dss_name) THEN Reply(Fail) /\ NoChange
             ELSE /\ UNCHANGED <<users, disks, dss_configs>>
                  /\ IF ~IsNumeric(file_size)
                     THEN files' = opened /\ Reply(Raise)
                     ELSE /\ files' = put_file(opened, dss_name, file_name,
                                               int(file_size), owner)
                          /\ Reply(Ok)

\* Variant: no ownership check.
not_owner_unchecked(file_info, user_name) == FALSE

\* file_info['owner'] != user_name
not_owner(file_info, user_name) == file_info.owner # user_name

read_file(args) ==
    /\ NoChange
    /\ IF Len(args) # 3 THEN Reply(Fail)
       ELSE LET dss_name == args[1]
                file_name == args[2]
                user_name == args[3]
            IN  IF ~dss_exists(dss_name) THEN Reply(Fail)
                ELSE IF ~DictHas(files, dss_name)
                        \/ ~DictHas(DictGet(files, dss_name).entries, file_name)
                     THEN Reply(Fail)
                ELSE LET file_info ==
                            DictGet(DictGet(files, dss_name).entries, file_name)
                         config == DictGet(dss_configs, dss_name)
                     IN  IF not_owner(file_info, user_name) THEN Reply(Fail)
                         ELSE IF ~all_registered(config.disk_order)
                              THEN Reply(Raise)
                         ELSE Reply(Response(SUCCESS,
                                  <<str(file_info.size), str(config.n),
                                    str(config.striping_unit),
                                    str(Len(config.disk_order))>>
                                  \o disk_parts(config.disk_order), <<>>))

read_complete(args) == NoChange /\ Reply(Ok)

\* The response of disk_failure and of decommission_dss.
dss_parameters(args) ==
    IF Len(args) # 1 THEN Fail
    ELSE IF ~dss_exists(args[1]) THEN Fail
    ELSE LET config == DictGet(dss_configs, args[1])
         IN  IF ~all_registered(config.disk_order) THEN Raise
             ELSE Response(SUCCESS,
                           <<str(config.n), str(config.striping_unit),
                             str(Len(config.disk_order))>>
                           \o disk_parts(config.disk_order), <<>>)

disk_failure(args) == NoChange /\ Reply(dss_parameters(args))

\* Variant: the acknowledgment returns the named disk to the Free pool.
recovery_complete_freeing(args) ==
    IF Len(args) < 2 THEN Reply(Fail) /\ NoChange
    ELSE /\ disks' = [i \in 1..Len(disks) |->
                        IF disks[i].name = args[2]
                        THEN [disks[i] EXCEPT !.state = "Free"] ELSE disks[i]]
         /\ UNCHANGED <<users, dss_configs, files>>
         /\ Reply(Ok)

recovery_complete(args) ==
    NoChange /\ IF Len(args) < 2 THEN Reply(Fail) ELSE Reply(Ok)

\* for disk_name in config['disk_order']: ... ['state'] = 'Free'
free_disks_of(disk_order) ==
    [i \in 1..Len(disks) |->
        IF disks[i].name \in SeqToSet(disk_order)
        THEN [disks[i] EXCEPT !.state = "Free"] ELSE disks[i]]

\* Variant: an unknown array is acknowledged.
decommission_complete_idempotent(args) ==
    IF Len(args) # 1 THEN Reply(Fail) /\ NoChange
    ELSE IF ~dss_exists(args[1]) THEN Reply(Ok) /\ NoChange
    ELSE LET dss_name == args[1]
             config == DictGet(dss_configs, dss_name)
         IN  /\ disks' = free_disks_of(config.disk_order)
             /\ dss_configs' = DictDel(dss_configs, dss_name)
             /\ files' = DictDel(files, dss_name)
             /\ UNCHANGED users
             /\ Reply(Ok)

decommission_complete(args) ==
    IF Len(args) # 1 THEN Reply(Fail) /\ NoChange
    ELSE IF ~dss_exists(args[1]) THEN Reply(Fail) /\ NoChange
    ELSE LET dss_name == args[1]
             config == DictGet(dss_configs, dss_name)
         IN  /\ disks' = free_disks_of(config.disk_order)
             /\ dss_configs' = DictDel(dss_configs, dss_name)
             /\ files' = DictDel(files, dss_name)
             /\ UNCHANGED users
             /\ Reply(Ok)

\* Variant: the first phase already removes the array.
decommission_dss_eager(args) == decommission_complete(args)

decommission_dss(args) == NoChange /\ Reply(dss_parameters(args))

deregister_user(args) ==
    IF Len(args) # 1 THEN Reply(Fail) /\ NoChange
    ELSE IF ~DictHas(users, args[1]) THEN Reply(Fail) /\ NoChange
    ELSE /\ users' = DictDel(users, args[1])
         /\ UNCHANGED <<disks, dss_configs, files>>
         /\ Reply(Ok)

\* Variant: the arrays configured with the disk go with it.
deregister_disk_cascading(args) ==
    IF Len(args) # 1 THEN Reply(Fail) /\ NoChange
    ELSE IF ~DictHas(disks, args[1]) THEN Reply(Fail) /\ NoChange
    ELSE /\ disks' = DictDel(disks, args[1])
         /\ dss_configs' =
                SelectSeq(dss_configs,
                          LAMBDA c : args[1] \notin SeqToSet(c.disk_order))
         /\ UNCHANGED <<users, files>>
         /\ Reply(Ok)

deregister_disk(args) ==
    IF Len(args) # 1 THEN Reply(Fail) /\ NoChange
    ELSE IF ~DictHas(disks, args[1]) THEN Reply(Fail) /\ NoChange
    ELSE /\ disks' = DictDel(disks, args[1])
         /\ UNCHANGED <<users, dss_configs, files>>
         /\ Reply(Ok)

process_command(command, args) ==
    IF command = "register-user" THEN register_user(args)
    ELSE IF command = "register-disk" THEN register_disk(args)
    ELSE IF command = "configure-dss" THEN configure_dss(args)
    ELSE IF command = "ls" THEN list_files(args)
    ELSE IF command = "copy" THEN copy_file(args)
    ELSE IF command = "read" THEN read_file(args)
    ELSE IF command = "disk-failure" THEN disk_failure(args)
    ELSE IF command = "decommission-dss" THEN decommission_dss(args)
    ELSE IF command = "decommission-complete" THEN decommission_complete(args)
    ELSE IF command = "deregister-user" THEN deregister_user(args)
    ELSE IF command = "deregister-disk" THEN deregister_disk(args)
    ELSE IF command = "copy-complete" THEN copy_complete(args)
    ELSE IF command = "read-complete" THEN read_complete(args)
    ELSE IF command = "recovery-complete" THEN recovery_complete(args)
    ELSE Reply(Fail) /\ NoChange

(***************************************************************************)
(* The history of acknowledged copy-completes, kept from what a client     *)
(* sees (the request and its response), not from the directory: the latest *)
(* successful copy-complete of each (dss, file) since the array was        *)
(* configured.                                                             *)
(***************************************************************************)
Observe(command, args, r) ==
    IF r.status # SUCCESS THEN completed
    ELSE IF command = "copy-complete"
         THEN {c \in completed : ~(c.dss = args[1] /\ c.file = args[2])}
              \cup {[dss |-> args[1], file |-> args[2],
                     owner |-> args[3], size |-> args[4]]}
    ELSE IF command \in {"configure-dss", "decommission-complete"}
         THEN {c \in completed : c.dss # args[1]}
    ELSE completed

\* handle_client: one request decoded, processed and answered.
Handle(command, args) ==
    /\ process_command(command, args)
    /\ last' = [cmd |-> command, args |-> args]
    /\ completed' = Observe(command, args, resp')
    /\ steps' = steps + 1
    /\ UNCHANGED except_manager

\* The model handles at most MaxSteps requests.
Running == steps < MaxSteps

RegisterUser ==
    /\ Running
    /\ \E args \in RegisterUserArgs : Handle("register-user", args)

RegisterDisk ==
    /\ Running
    /\ \E args \in RegisterDiskArgs : Handle("register-disk", args)

ConfigureDss ==
    /\ Running
    /\ \E args \in ConfigureArgs : Handle("configure-dss", args)

ListFiles ==
    /\ Running
    /\ \E args \in {<<>>, <<"A">>} : Handle("ls", args)

Copy ==
    /\ Running
    /\ \E args \in CopyArgs : Handle("copy", args)

CopyComplete ==
    /\ Running
    /\ \E args \in CopyCompleteArgs : Handle("copy-complete", args)

Read ==
    /\ Running
    /\ \E args \in ReadArgs : Handle("read", args)

ReadComplete ==
    /\ Running
    /\ \E args \in ReadCompleteArgs : Handle("read-complete", args)

DiskFailure ==
    /\ Running
    /\ \E args \in DssArgs : Handle("disk-failure", args)

RecoveryComplete ==
    /\ Running
    /\ \E args \in {<<"A", "d1">>, <<"A">>} : Handle("recovery-complete", args)

DecommissionDss ==
    /\ Running
    /\ \E args \in DssArgs : Handle("decommission-dss", args)

DecommissionComplete ==
    /\ Running
    /\ \E args \in DssArgs : Handle("decommission-complete", args)

DeregisterUser ==
    /\ Running
    /\ \E args \in {<<"alice">>, <<"bob">>, <<>>} :
            Handle("deregister-user", args)

DeregisterDisk ==
    /\ Running
    /\ \E args \in DiskArgs : Handle("deregister-disk", args)

\* A command the dispatcher does not know (the client's delete-all).
UnknownCommand ==
    /\ Running
    /\ Handle("delete-all", <<"A">>)

(***************************************************************************)
(* disk.py: DSS_Disk, a storage node.  A node is identified by the command *)
(* port it listens on.  Its storage directory is a dict from the file path *)
(* "{dss_name}_{file_name}" to the JSON document kept in that file, whose   *)
(* 'stripes' dict maps str(stripe_num) to type, hex data and size.  A node *)
(* response carries the status token, the tokens after it, and the raw     *)
(* payload bytes sent after it: handle_command_client sends the string     *)
(* process_command returns and nothing else, so the payload is empty.      *)
(***************************************************************************)
FAIL == "FAIL"
FAIL_COMPLETE == "FAIL-COMPLETE"

Ports == {9000 + i : i \in 1..(MaxCopyDisks + SpareDisks)}

NodeResponse(status, parts) ==
    [status |-> status, parts |-> parts, payload |-> <<>>]

\* b'D' * data_size, b'P' * data_size (empty when data_size <= 0)
Repeat(byte, size) == [i \in 1..(IF size > 0 THEN size ELSE 0) |-> byte]

\* bytes.hex(): two hexadecimal digits per byte
hex(bytes) == [i \in 1..Len(bytes) |-> <<bytes[i] \div 16, bytes[i] % 16>>]

\* bytes.fromhex()
fromhex(digits) == [i \in 1..Len(digits) |-> 16 * digits[i][1] + digits[i][2]]

\* os.path.join(self.storage_dir, f"{dss_name}_{file_name}")
file_path(dss_name, file_name) == dss_name \o "_" \o file_name

\* The block store_block persists: the payload is not read, the block is
\* data_size bytes 'D' for a data block and 'P' for any other type.
stored_block_data(block_type, data_size) ==
    IF block_type = "data" THEN Repeat(68, data_size)
    ELSE Repeat(80, data_size)

\* The text json.dumps writes for one entry of the 'stripes' dict,
\* '"0": {"type": "data", "data": "4444", "size": 2}', counted in characters:
\* the tokens are decimal digits and ASCII letters, which are not escaped.
stripe_text_len(rec) ==
    (Len(rec.name) + 5) + (Len(rec.type) + 12) + (2 * Len(rec.data) + 12)
        + (Len(str(rec.size)) + 8) + 1

RECURSIVE entries_text_len(_, _)
entries_text_len(stripes, i) ==
    IF i > Len(stripes) THEN 0
    ELSE stripe_text_len(stripes[i]) + (IF i > 1 THEN 2 ELSE 0)
            + entries_text_len(stripes, i + 1)

\* len(json.dumps(file_data).encode()) of {'stripes': {...}}
json_len(stripes) == 13 + entries_text_len(stripes, 1) + 2

\* A file of the storage directory: the JSON document at its start and the
\* number of bytes that follow it.  open(file_path, 'wb') leaves a file of no
\* bytes, which is the record with no stripe: every document the node writes
\* has at least one.
json_file(path, stripes) == [name |-> path, stripes |-> stripes, extra |-> 0]

text_len(file) ==
    IF file.stripes = <<>> THEN 0 ELSE json_len(file.stripes) + file.extra

\* json.loads(f.read().decode()) raises: the file has no bytes
\* (JSONDecodeError "Expecting value") or bytes after the document
\* ("Extra data").
unreadable(store, path) ==
    /\ DictHas(store, path)
    /\ \/ DictGet(store, path).stripes = <<>>
       \/ DictGet(store, path).extra > 0

\* f.write(json.dumps(file_data).encode()) on a file opened 'wb': the file was
\* truncated when it was opened, and the text goes to offset 0 when the file
\* is closed.  Bytes another thread wrote in between stay behind the text
\* where they reach further than it.
write_at_start(store, path, stripes) ==
    LET over == text_len(DictGet(store, path)) - json_len(stripes)
    IN  DictSet(store, [name |-> path, stripes |-> stripes,
                        extra |-> IF over > 0 THEN over ELSE 0])

\* Each handler below yields the response and the node's storage after it.
disk_store_block(store, args) ==
    IF Len(args) < 5 THEN [resp |-> NodeResponse(FAILURE, <<>>), store |-> store]
    ELSE IF ~IsNumeric(args[3]) \/ ~IsNumeric(args[5])
         THEN [resp |-> NodeResponse(EXCEPTION, <<>>), store |-> store]
    ELSE IF unreadable(store, file_path(args[1], args[2]))
         THEN [resp |-> NodeResponse(EXCEPTION, <<>>), store |-> store]
    ELSE LET path == file_path(args[1], args[2])
             stripe == int(args[3])
             block_type == args[4]
             data_size == int(args[5])
             block_data == stored_block_data(block_type, data_size)
             file_data == IF DictHas(store, path) THEN DictGet(store, path)
                          ELSE json_file(path, <<>>)
             saved == [file_data EXCEPT
                        !.stripes = DictSet(@, [name |-> str(stripe),
                                                type |-> block_type,
                                                data |-> hex(block_data),
                                                size |-> data_size])]
         IN  [resp |-> NodeResponse(SUCCESS, <<>>),
              store |-> DictSet(store, saved)]

\* recover_stripe(dss_name, file_name, stripe_num, other_disk_info): a data
\* record of 1024 bytes 'R' is put under the stripe, without the lock and
\* without the test of self.failed.  process_command dispatches no command to
\* it and nothing else in the program calls it.  This is the call run from
\* its start to its return with no other thread in between; RecoverStripeLoad,
\* RecoverStripeOpen and RecoverStripeSave are its steps.
recovered_data == Repeat(82, 1024)

recovered_hex == hex(recovered_data)

disk_recover_stripe(store, dss_name, file_name, stripe) ==
    LET path == file_path(dss_name, file_name)
        file_data == IF DictHas(store, path) THEN DictGet(store, path)
                     ELSE json_file(path, <<>>)
        saved == [file_data EXCEPT
                    !.stripes = DictSet(@, [name |-> str(stripe),
                                            type |-> "data",
                                            data |-> recovered_hex,
                                            size |-> Len(recovered_data)])]
    IN  IF unreadable(store, path)
        THEN [resp |-> NodeResponse(EXCEPTION, <<>>), store |-> store]
        ELSE [resp |-> NodeResponse(SUCCESS, <<>>),
              store |-> DictSet(store, saved)]

\* The stored stripe record a read-block or get-stripe finds, if any.
has_stripe(store, args) ==
    /\ DictHas(store, file_path(args[1], args[2]))
    /\ ~unreadable(store, file_path(args[1], args[2]))
    /\ DictHas(DictGet(store, file_path(args[1], args[2])).stripes,
               str(int(args[3])))

stripe_record(store, args) ==
    DictGet(DictGet(store, file_path(args[1], args[2])).stripes,
            str(int(args[3])))

disk_read_block(store, args) ==
    [store |-> store,
     resp |->
        IF Len(args) < 3 THEN NodeResponse(FAILURE, <<>>)
        ELSE IF ~IsNumeric(args[3]) THEN NodeResponse(EXCEPTION, <<>>)
        ELSE IF ~has_stripe(store, args) THEN NodeResponse(FAILURE, <<>>)
        ELSE LET stripe_data == stripe_record(store, args)
             IN  NodeResponse(SUCCESS, <<str(stripe_data.size),
                                         stripe_data.type>>)]

disk_get_stripe(store, args) ==
    [store |-> store,
     resp |->
        IF Len(args) < 3 THEN NodeResponse(FAILURE, <<>>)
        ELSE IF ~IsNumeric(args[3]) THEN NodeResponse(EXCEPTION, <<>>)
        ELSE IF ~has_stripe(store, args) THEN NodeResponse(FAILURE, <<>>)
        ELSE LET stripe_data == stripe_record(store, args)
             IN  NodeResponse(SUCCESS, <<stripe_data.type,
                                         str(stripe_data.size)>>)]

\* Variant: a failed node still serves its commands.
is_failed_never(flag) == FALSE

\* if self.failed: return "FAIL"
is_failed(flag) == flag

\* The body of process_command under self.lock: response, storage and
\* Failed flag after the command.
disk_locked_command(store, command, args) ==
    IF command = "store-block"
    THEN disk_store_block(store, args) @@ [failed |-> FALSE]
    ELSE IF command = "read-block"
    THEN disk_read_block(store, args) @@ [failed |-> FALSE]
    ELSE IF command = "fail"
    THEN [resp |-> NodeResponse(FAIL_COMPLETE, <<>>), store |-> store,
          failed |-> TRUE]
    ELSE IF command = "get-stripe"
    THEN disk_get_stripe(store, args) @@ [failed |-> FALSE]
    ELSE [resp |-> NodeResponse(FAILURE, <<>>), store |-> store,
          failed |-> FALSE]

\* process_command from "with self.lock" on, for a request that has passed
\* the test of self.failed: flag is the Failed flag when the lock is taken.
\* The flag is only ever set.
disk_after_test(flag, store, command, args) ==
    LET out == disk_locked_command(store, command, args)
    IN  [out EXCEPT !.failed = (flag \/ out.failed)]

\* process_command run without interleaving: the Failed flag is tested, then
\* the command runs under the lock.
disk_process_command(flag, store, command, args) ==
    IF is_failed(flag)
    THEN [resp |-> NodeResponse(FAIL, <<>>), store |-> store, failed |-> flag]
    ELSE disk_after_test(flag, store, command, args)

(***************************************************************************)
(* disk.py: the handlers of one node.  start_command_server starts one     *)
(* handle_command_client thread per connection; process_command reads      *)
(* self.failed before it takes self.lock; it returns its response and      *)
(* leaves the lock, and the thread sends the response afterwards.          *)
(***************************************************************************)
\* Variant: the lock excludes nobody.
lock_free_always(holder) == TRUE

\* threading.Lock: acquire returns when no thread holds the lock
lock_free(holder) == holder = 0

Handlers == 1..MaxHandlers

\* The thread of a call of recover_stripe on the node object: handlers[Caller]
\* holds where the call stands, its arguments and its local file_data.
Caller == 0

\* The node the handlers belong to.
TheNode == CHOOSE p \in Ports : \A q \in Ports : p <= q

NodeRequests ==
    {[cmd |-> "store-block", args |-> <<"A", "f1", "0", "data", "128">>],
     [cmd |-> "store-block", args |-> <<"A", "f1", "1", "parity", "128">>],
     [cmd |-> "store-block", args |-> <<"A", "f1", "0", "data">>],
     [cmd |-> "read-block", args |-> <<"A", "f1", "0">>],
     [cmd |-> "read-block", args |-> <<"A", "f1", "x">>],
     [cmd |-> "get-stripe", args |-> <<"A", "f1", "0">>],
     [cmd |-> "fail", args |-> <<>>],
     [cmd |-> "delete-all", args |-> <<"A">>]}

\* A handler thread: where it stands, its request, whether the Failed flag
\* was set when the request arrived (history), the response process_command
\* returned, the response its client has received.
IdleHandler ==
    [pc |-> "idle", cmd |-> "", args |-> <<>>, late |-> FALSE,
     file_data |-> <<>>, response |-> NodeResponse("", <<>>),
     resp |-> NodeResponse("", <<>>)]

NodesIdle ==
    /\ failed = [p \in Ports |-> FALSE]
    /\ storage = [p \in Ports |-> <<>>]
    /\ node_lock = 0
    /\ handlers = [h \in Handlers \cup {Caller} |-> IdleHandler]
    /\ served = 0
    /\ unread = [p \in Ports |-> <<>>]

(***************************************************************************)
(* manager.py: concurrent connections.  start_server starts one            *)
(* handle_client thread per connection; each thread receives a request,    *)
(* takes self.lock in process_command, runs the handler and answers.       *)
(* configure_dss is taken in two steps here (the Free disks are read, then *)
(* the selected ones are marked and the array is stored) so that what the  *)
(* lock excludes is visible; the other handlers are one step under the     *)
(* lock.  process_command returns its response and leaves the lock; the    *)
(* thread sends the response afterwards, in a step of its own.             *)
(***************************************************************************)
MaxConns == 2
MaxConcRequests == 3

Conns == 1..MaxConns

\* The disks registered before the concurrent requests arrive.
ConcDiskNames == <<"d1", "d2", "d3", "d4">>

ConcRequests ==
    {[cmd |-> "configure-dss", args |-> <<a, n, "128">>] :
        a \in DssNames, n \in {"3", "4"}}
    \cup {[cmd |-> "decommission-complete", args |-> <<"A">>],
          [cmd |-> "copy-complete", args |-> <<"A", "f1", "alice", "1000">>],
          [cmd |-> "ls", args |-> <<>>]}

\* A connection thread: where it stands, its request, the handler's local
\* free_disks, what the coordinator state was when it took the lock (history),
\* the response process_command returned, the response its client has
\* received, and whether the lock was held when its request arrived (history).
IdleConn ==
    [pc |-> "idle", cmd |-> "", args |-> <<>>, free |-> <<>>, seen |-> <<>>,
     response |-> Response("", <<>>, <<>>),
     resp |-> Response("", <<>>, <<>>), waited |-> FALSE]

\* The client between operations: no operation run yet.
IdleClient ==
    [pc |-> "idle", op |-> "", result |-> "", ops |-> 0,
     dss_name |-> "", file_name |-> "", file_size |-> 0, n |-> 0,
     striping_unit |-> 0, disk_info |-> <<>>, stripe_num |-> 0, i |-> 0,
     blocks |-> <<>>, file_data |-> <<>>, output |-> <<>>,
     failed_disk_idx |-> 0, files_on_dss |-> <<>>, file |-> 1,
     written |-> <<>>, acked |-> FALSE,
     attempt |-> 0, error_probability |-> 0, verified |-> <<>>,
     clean |-> <<>>, injected |-> FALSE, recovered |-> <<>>,
     fail_response |-> "", tested |-> FALSE,
     prev |-> [op |-> "", result |-> ""], lost |-> FALSE]

ClientIdle == client = IdleClient

\* perform_copy_operation has started no thread.
ThreadsIdle == threads = <<>>

\* The second client is at its prompt and has sent nothing.
IdleOther ==
    [pc |-> "idle", commands |-> 0, dss_name |-> "", n |-> 0,
     striping_unit |-> 0, disk_info |-> <<>>, stripe_num |-> 0,
     threads |-> <<>>, faults |-> 0, completed |-> FALSE,
     concurrent |-> FALSE]

OtherIdle == other = IdleOther

ConcIdle ==
    /\ lock = 0
    /\ conns = [c \in Conns |-> IdleConn]

\* The coordinator after DSS_Manager.__init__, no request handled yet.
ManagerIdle ==
    /\ users = <<>>
    /\ disks = <<>>
    /\ dss_configs = <<>>
    /\ files = <<>>
    /\ last = [cmd |-> "", args |-> <<>>]
    /\ resp = Response("", <<>>, <<>>)
    /\ completed = {}
    /\ steps = 0

ParityIdle ==
    /\ total_disks = 0
    /\ next_stripe = 0
    /\ parity_slots = <<>>

CopyIdle ==
    /\ copy_pc = "idle"
    /\ copy_data = <<>>
    /\ copy_n = 0
    /\ copy_unit = 0
    /\ stripe_num = 0
    /\ transfers = <<>>
    /\ results = <<>>
    /\ copy_dss = ""
    /\ copy_name = ""
    /\ copy_disks = <<>>

Init ==
    /\ ManagerIdle /\ ParityIdle /\ CopyIdle /\ ConcIdle /\ NodesIdle
    /\ ClientIdle /\ ThreadsIdle /\ OtherIdle

Next ==
    \/ RegisterUser
    \/ RegisterDisk
    \/ ConfigureDss
    \/ ListFiles
    \/ Copy
    \/ CopyComplete
    \/ Read
    \/ ReadComplete
    \/ DiskFailure
    \/ RecoveryComplete
    \/ DecommissionDss
    \/ DecommissionComplete
    \/ DeregisterUser
    \/ DeregisterDisk
    \/ UnknownCommand

Spec == Init /\ [][Next]_vars

(***************************************************************************)
(* manager.py: the commands that move disks in and out of arrays, from the *)
(* coordinator's state after register-disk d1 .. d4 and configure-dss A 3  *)
(* 128.  SpecArrays handles up to MaxArraySteps further requests.          *)
(***************************************************************************)
ConfiguredSteps == Cardinality(DiskNames) + 1

MoreArraySteps == steps < ConfiguredSteps + MaxArraySteps

RegisterAgain ==
    /\ MoreArraySteps
    /\ \E d \in DiskNames : Handle("register-disk", <<d, Addr, "7000", "9001">>)

DeregisterAny ==
    /\ MoreArraySteps
    /\ \E d \in DiskNames : Handle("deregister-disk", <<d>>)

ConfigureAnother ==
    /\ MoreArraySteps
    /\ \E a \in DssNames : Handle("configure-dss", <<a, "3", "128">>)

DecommissionAny ==
    /\ MoreArraySteps
    /\ \E a \in DssNames : Handle("decommission-complete", <<a>>)

InitArrays ==
    /\ users = <<>>
    /\ disks = [i \in 1..4 |->
                    [name |-> "d" \o str(i), address |-> Addr,
                     m_port |-> 7000, c_port |-> 9001,
                     state |-> IF i <= 3 THEN "InDSS" ELSE "Free"]]
    /\ dss_configs = <<[name |-> "A", n |-> 3, striping_unit |-> 128,
                        disk_order |-> <<"d1", "d2", "d3">>]>>
    /\ files = <<[name |-> "A", entries |-> <<>>]>>
    /\ last = [cmd |-> "configure-dss", args |-> <<"A", "3", "128">>]
    /\ steps = ConfiguredSteps
    /\ resp = Ok
    /\ completed = {}
    /\ ParityIdle
    /\ CopyIdle
    /\ ConcIdle
    /\ NodesIdle
    /\ ClientIdle
    /\ ThreadsIdle
    /\ OtherIdle

NextArrays ==
    \/ RegisterAgain
    \/ DeregisterAny
    \/ ConfigureAnother
    \/ DecommissionAny

SpecArrays == InitArrays /\ [][NextArrays]_vars

InFlight == Cardinality({c \in Conns : conns[c].pc # "idle"})

\* Variant: the handler does not wait for the lock.
can_acquire_always(c) == TRUE

\* with self.lock: the thread enters when no other thread holds the lock
can_acquire(c) == lock = 0

\* The end of process_command: the handler returns r and "with self.lock" is
\* left; nothing is sent yet.
Answer(c, r) ==
    /\ resp' = r
    /\ last' = [cmd |-> conns[c].cmd, args |-> conns[c].args]
    /\ completed' = Observe(conns[c].cmd, conns[c].args, r)
    /\ steps' = steps + 1
    /\ lock' = 0
    /\ conns' = [conns EXCEPT ![c].pc = "returned", ![c].response = r]

\* What configure_dss answers before it selects disks, Ok when it goes on.
configure_refusal(args) ==
    IF Len(args) # 3 THEN Fail
    ELSE IF ~IsNumeric(args[2]) \/ ~IsNumeric(args[3]) THEN Raise
    ELSE IF invalid_n(int(args[2])) THEN Fail
    ELSE IF invalid_striping_unit(int(args[3])) THEN Fail
    ELSE IF not_power_of_two(int(args[3])) THEN Fail
    ELSE IF dss_exists(args[1]) THEN Fail
    ELSE IF Len(free_disks) < int(args[2]) THEN Fail
    ELSE Ok

Receive ==
    /\ steps - Len(ConcDiskNames) + InFlight < MaxConcRequests
    /\ \E c \in Conns, req \in ConcRequests :
        /\ conns[c].pc = "idle"
        /\ conns' = [conns EXCEPT
                        ![c] = [IdleConn EXCEPT !.pc = "received",
                                                !.cmd = req.cmd,
                                                !.args = req.args,
                                                !.waited = (lock # 0)]]
    /\ UNCHANGED <<lock, mvars, except_manager_conns>>

AcquireLock ==
    /\ \E c \in Conns :
        /\ conns[c].pc = "received"
        /\ can_acquire(c)
        /\ lock' = c
        /\ conns' = [conns EXCEPT ![c].pc = "locked", ![c].seen = cstate]
    /\ UNCHANGED <<mvars, except_manager_conns>>

\* configure_dss up to free_disks = [...]
SelectDisks ==
    /\ \E c \in Conns :
        /\ conns[c].pc = "locked"
        /\ conns[c].cmd = "configure-dss"
        /\ IF configure_refusal(conns[c].args) # Ok
           THEN Answer(c, configure_refusal(conns[c].args)) /\ NoChange
           ELSE /\ conns' = [conns EXCEPT ![c].pc = "selected",
                                          ![c].free = free_disks]
                /\ UNCHANGED <<lock, mvars>>
    /\ UNCHANGED except_manager_conns

\* configure_dss from selected_disks = free_disks[:n] to return SUCCESS
CommitConfigure ==
    /\ \E c \in Conns :
        /\ conns[c].pc = "selected"
        /\ LET dss_name == conns[c].args[1]
               n == int(conns[c].args[2])
               striping_unit == int(conns[c].args[3])
               disk_order == selected_disks(conns[c].free, n)
           IN  IF ~all_registered(disk_order)
               THEN Answer(c, Raise) /\ NoChange
               ELSE /\ disks' = mark_selected(disk_order)
                    /\ dss_configs' =
                        DictSet(dss_configs,
                                [name |-> dss_name, n |-> n,
                                 striping_unit |-> striping_unit,
                                 disk_order |-> disk_order])
                    /\ files' = DictSet(files, [name |-> dss_name,
                                                entries |-> <<>>])
                    /\ UNCHANGED users
                    /\ Answer(c, Ok)
    /\ UNCHANGED except_manager_conns

\* Every other handler, from taking the lock to leaving it with the response
\* to send.
Execute ==
    /\ \E c \in Conns :
        /\ conns[c].pc = "locked"
        /\ conns[c].cmd # "configure-dss"
        /\ process_command(conns[c].cmd, conns[c].args)
        /\ last' = [cmd |-> conns[c].cmd, args |-> conns[c].args]
        /\ completed' = Observe(conns[c].cmd, conns[c].args, resp')
        /\ steps' = steps + 1
        /\ lock' = 0
        /\ conns' = [conns EXCEPT ![c].pc = "returned",
                                  ![c].response = resp']
    /\ UNCHANGED except_manager_conns

\* handle_client: Message.send_message(client_socket, response); after an
\* exception nothing is sent and the connection is closed.
SendResponse ==
    /\ \E c \in Conns :
        /\ conns[c].pc = "returned"
        /\ conns' = [conns EXCEPT ![c].pc = "idle",
                                  ![c].resp = conns[c].response]
    /\ UNCHANGED <<lock, mvars, except_manager_conns>>

\* The coordinator after the disks of ConcDiskNames have registered.
InitConc ==
    /\ users = <<>>
    /\ disks = [i \in 1..Len(ConcDiskNames) |->
                    [name |-> ConcDiskNames[i], address |-> Addr,
                     m_port |-> 7000, c_port |-> 9001, state |-> "Free"]]
    /\ dss_configs = <<>>
    /\ files = <<>>
    /\ last = [cmd |-> "register-disk",
               args |-> <<ConcDiskNames[Len(ConcDiskNames)], Addr,
                          "7000", "9001">>]
    /\ resp = Ok
    /\ completed = {}
    /\ steps = Len(ConcDiskNames)
    /\ ConcIdle
    /\ ParityIdle
    /\ CopyIdle
    /\ NodesIdle
    /\ ClientIdle
    /\ ThreadsIdle
    /\ OtherIdle

NextConc ==
    \/ Receive
    \/ AcquireLock
    \/ SelectDisks
    \/ CommitConfigure
    \/ Execute
    \/ SendResponse

SpecConc == InitConc /\ [][NextConc]_vars

Pending == Cardinality({h \in Handlers : handlers[h].pc # "idle"})

\* handle_command_client: receive_message, decode_message
NodeReceive ==
    /\ served + Pending < MaxNodeRequests
    /\ \E h \in Handlers, req \in NodeRequests :
        /\ handlers[h].pc = "idle"
        /\ handlers' = [handlers EXCEPT
                            ![h] = [IdleHandler EXCEPT
                                        !.pc = "received",
                                        !.cmd = req.cmd,
                                        !.args = req.args,
                                        !.late = failed[TheNode]]]
    /\ UNCHANGED <<failed, storage, node_lock, served, except_nodes>>

\* process_command: if self.failed: return "FAIL"
NodeCheck ==
    /\ \E h \in Handlers :
        /\ handlers[h].pc = "received"
        /\ IF is_failed(failed[TheNode])
           THEN handlers' = [handlers EXCEPT
                                ![h].pc = "returned",
                                ![h].response = NodeResponse(FAIL, <<>>)]
           ELSE handlers' = [handlers EXCEPT ![h].pc = "waiting"]
    /\ UNCHANGED <<failed, storage, node_lock, served, except_nodes>>

\* process_command: with self.lock
NodeLock ==
    /\ \E h \in Handlers :
        /\ handlers[h].pc = "waiting"
        /\ lock_free(node_lock)
        /\ node_lock' = h
        /\ handlers' = [handlers EXCEPT ![h].pc = "locked"]
    /\ UNCHANGED <<failed, storage, served, except_nodes>>

\* store_block: the arguments pass the length check and int(), so the
\* command goes on to load, modify and save the file of stripes.
loads_file(cmd, args) ==
    /\ cmd = "store-block"
    /\ Len(args) >= 5
    /\ IsNumeric(args[3])
    /\ IsNumeric(args[5])

\* open(file_path, 'wb') before anything is written: a file of no bytes.
empty_file(path) == json_file(path, <<>>)

\* store_block: "Load existing file data or create new".  json.loads of a
\* file of no bytes, or of one with bytes after the document, raises and the
\* lock is released; the connection is closed afterwards.
NodeLoad ==
    /\ \E h \in Handlers :
        /\ handlers[h].pc = "locked"
        /\ loads_file(handlers[h].cmd, handlers[h].args)
        /\ LET path == file_path(handlers[h].args[1], handlers[h].args[2])
               store == storage[TheNode]
           IN  IF unreadable(store, path)
               THEN /\ handlers' = [handlers EXCEPT
                                ![h].pc = "returned",
                                ![h].response = NodeResponse(EXCEPTION, <<>>)]
                    /\ node_lock' = 0
               ELSE /\ handlers' = [handlers EXCEPT
                                        ![h].pc = "loaded",
                                        ![h].file_data =
                                            IF DictHas(store, path)
                                            THEN DictGet(store, path).stripes
                                            ELSE <<>>]
                    /\ UNCHANGED node_lock
    /\ UNCHANGED <<failed, storage, served, except_nodes>>

\* store_block: "Store stripe data", then open(file_path, 'wb')
NodeOpen ==
    /\ \E h \in Handlers :
        /\ handlers[h].pc = "loaded"
        /\ LET args == handlers[h].args
               path == file_path(args[1], args[2])
               data_size == int(args[5])
           IN  /\ storage' = [storage EXCEPT
                                ![TheNode] = DictSet(@, empty_file(path))]
               /\ handlers' = [handlers EXCEPT
                        ![h].pc = "opened",
                        ![h].file_data =
                            DictSet(@, [name |-> str(int(args[3])),
                                        type |-> args[4],
                                        data |-> hex(stored_block_data(args[4],
                                                                       data_size)),
                                        size |-> data_size])]
    /\ UNCHANGED <<failed, node_lock, served, except_nodes>>

\* store_block: f.write(json.dumps(file_data).encode()), return SUCCESS; the
\* lock is released
NodeSave ==
    /\ \E h \in Handlers :
        /\ handlers[h].pc = "opened"
        /\ LET path == file_path(handlers[h].args[1], handlers[h].args[2])
           IN  storage' = [storage EXCEPT
                            ![TheNode] =
                                write_at_start(@, path, handlers[h].file_data)]
        /\ handlers' = [handlers EXCEPT
                            ![h].pc = "returned",
                            ![h].response = NodeResponse(SUCCESS, <<>>)]
    /\ node_lock' = 0
    /\ UNCHANGED <<failed, served, except_nodes>>

\* process_command: any other command under the lock, the lock released
NodeExecute ==
    /\ \E h \in Handlers :
        /\ handlers[h].pc = "locked"
        /\ ~loads_file(handlers[h].cmd, handlers[h].args)
        /\ LET out == disk_locked_command(storage[TheNode], handlers[h].cmd,
                                          handlers[h].args)
           IN  /\ storage' = [storage EXCEPT ![TheNode] = out.store]
               /\ failed' = [failed EXCEPT ![TheNode] = (@ \/ out.failed)]
               /\ handlers' = [handlers EXCEPT ![h].pc = "returned",
                                               ![h].response = out.resp]
        /\ node_lock' = 0
    /\ UNCHANGED <<served, except_nodes>>

\* handle_command_client: Message.send_message(client_socket, response);
\* after an exception nothing is sent and the connection is closed.
NodeSend ==
    /\ \E h \in Handlers :
        /\ handlers[h].pc = "returned"
        /\ handlers' = [handlers EXCEPT ![h].pc = "idle",
                                        ![h].resp = handlers[h].response]
    /\ served' = served + 1
    /\ UNCHANGED <<failed, storage, node_lock, except_nodes>>

InitNode ==
    /\ ManagerIdle
    /\ ParityIdle
    /\ CopyIdle
    /\ ConcIdle
    /\ NodesIdle
    /\ ClientIdle
    /\ ThreadsIdle
    /\ OtherIdle

NextNode ==
    \/ NodeReceive
    \/ NodeCheck
    \/ NodeLock
    \/ NodeLoad
    \/ NodeOpen
    \/ NodeSave
    \/ NodeExecute
    \/ NodeSend

SpecNode == InitNode /\ [][NextNode]_vars

\* The stripes recover_stripe is called with.
RecoveredStripes == {5}

\* recover_stripe called on the node object, whatever the handlers are
\* doing: neither the Failed flag nor the lock is looked at.  "Load existing
\* file data or create new": json.loads of a file of no bytes, or of one with
\* bytes after the document, raises and the call ends.
RecoverStripeLoad ==
    /\ handlers[Caller].pc = "idle"
    /\ \E stripe \in RecoveredStripes :
        LET path == file_path("A", "f1")
            store == storage[TheNode]
        IN  IF unreadable(store, path)
            THEN UNCHANGED handlers
            ELSE handlers' = [handlers EXCEPT
                    ![Caller] = [IdleHandler EXCEPT
                                    !.pc = "loaded",
                                    !.cmd = "recover_stripe",
                                    !.args = <<"A", "f1", str(stripe)>>,
                                    !.file_data =
                                        IF DictHas(store, path)
                                        THEN DictGet(store, path).stripes
                                        ELSE <<>>]]
    /\ UNCHANGED <<failed, storage, node_lock, served, except_nodes>>

\* recover_stripe: "Store recovered stripe data", then open(file_path, 'wb')
RecoverStripeOpen ==
    /\ handlers[Caller].pc = "loaded"
    /\ LET args == handlers[Caller].args
           path == file_path(args[1], args[2])
       IN  /\ storage' = [storage EXCEPT
                            ![TheNode] = DictSet(@, empty_file(path))]
           /\ handlers' = [handlers EXCEPT
                    ![Caller].pc = "opened",
                    ![Caller].file_data =
                        DictSet(@, [name |-> args[3],
                                    type |-> "data",
                                    data |-> recovered_hex,
                                    size |-> Len(recovered_data)])]
    /\ UNCHANGED <<failed, node_lock, served, except_nodes>>

\* recover_stripe: f.write(json.dumps(file_data).encode()), return SUCCESS
RecoverStripeSave ==
    /\ handlers[Caller].pc = "opened"
    /\ LET args == handlers[Caller].args
           path == file_path(args[1], args[2])
       IN  storage' = [storage EXCEPT
                        ![TheNode] =
                            write_at_start(@, path, handlers[Caller].file_data)]
    /\ handlers' = [handlers EXCEPT ![Caller] = IdleHandler]
    /\ UNCHANGED <<failed, node_lock, served, except_nodes>>

\* The node's handlers together with direct calls of recover_stripe, which
\* the program itself never makes.
NextCalls ==
    \/ NextNode
    \/ RecoverStripeLoad
    \/ RecoverStripeOpen
    \/ RecoverStripeSave

SpecCalls == InitNode /\ [][NextCalls]_vars

(***************************************************************************)
(* utils.py: the parity slot of a stripe.  SpecParity applies               *)
(* get_disk_for_stripe to consecutive stripe numbers, from any start.       *)
(***************************************************************************)
MaxParityDisks == 6
MaxStart == 7

\* Variant: the parity slot rotates forward.
get_disk_for_stripe_forward(stripe, total) == stripe % total

get_disk_for_stripe(stripe, total) ==
    (total - 1 - (stripe % total)) % total

InitParity ==
    /\ ManagerIdle
    /\ CopyIdle
    /\ ConcIdle
    /\ NodesIdle
    /\ ClientIdle
    /\ ThreadsIdle
    /\ OtherIdle
    /\ total_disks \in 3..MaxParityDisks
    /\ next_stripe \in 0..MaxStart
    /\ parity_slots = <<>>

ApplyParity ==
    /\ Len(parity_slots) < 2 * total_disks
    /\ parity_slots' =
            Append(parity_slots, get_disk_for_stripe(next_stripe, total_disks))
    /\ next_stripe' = next_stripe + 1
    /\ UNCHANGED <<total_disks, except_parity>>

NextParity == ApplyParity

SpecParity == InitParity /\ [][NextParity]_vars

(***************************************************************************)
(* utils.py and user.py: the write path.  A byte is an integer in 0..255,  *)
(* a bytes object a sequence of bytes.                                     *)
(***************************************************************************)
\* a ^ b on bytes
RECURSIVE Xor(_, _)
Xor(a, b) ==
    IF a = 0 THEN b
    ELSE IF b = 0 THEN a
    ELSE (((a % 2) + (b % 2)) % 2) + 2 * Xor(a \div 2, b \div 2)

Min(a, b) == IF a < b THEN a ELSE b

Zeros(k) == [i \in 1..k |-> 0]

\* data[start:end] (0-based, end exclusive, 0 <= start)
Slice(data, start, end) ==
    SubSeq(data, start + 1, Min(end, Len(data)))

\* for i in range(min(len(parity), len(block))): parity[i] ^= block[i]
xor_into(parity, block) ==
    [i \in 1..Len(parity) |->
        IF i <= Min(Len(parity), Len(block))
        THEN Xor(parity[i], block[i]) ELSE parity[i]]

RECURSIVE xor_fold(_, _)
xor_fold(parity, blocks) ==
    IF blocks = <<>> THEN parity
    ELSE xor_fold(xor_into(parity, Head(blocks)), Tail(blocks))

\* Variant: the last block is left out of the parity.
calculate_parity_short(data_blocks) ==
    IF data_blocks = <<>> THEN <<>>
    ELSE xor_fold(Head(data_blocks),
                  SubSeq(data_blocks, 2, Len(data_blocks) - 1))

calculate_parity(data_blocks) ==
    IF data_blocks = <<>> THEN <<>>
    ELSE xor_fold(Head(data_blocks), Tail(data_blocks))

pad_block(data, block_size) ==
    IF Len(data) >= block_size THEN SubSeq(data, 1, block_size)
    ELSE data \o Zeros(block_size - Len(data))

\* math.ceil(total_size / data_per_stripe)
num_stripes(total_size, data_per_stripe) ==
    (total_size + data_per_stripe - 1) \div data_per_stripe

\* file_data[start_pos:end_pos] of the stripe
stripe_data_of(file_data, stripe, data_per_stripe) ==
    Slice(file_data, stripe * data_per_stripe,
          Min(stripe * data_per_stripe + data_per_stripe, Len(file_data)))

\* the n-1 data blocks of a stripe, block i at index i+1
data_blocks_of(stripe_data, n, striping_unit) ==
    [k \in 1..(n - 1) |->
        LET block_start == (k - 1) * striping_unit
            block_end == Min(block_start + striping_unit, Len(stripe_data))
        IN  IF block_start < Len(stripe_data)
            THEN pad_block(Slice(stripe_data, block_start, block_end),
                           striping_unit)
            ELSE Zeros(striping_unit)]

\* disk_idx = i if i < parity_disk_idx else i + 1
data_disk_idx(i, parity_disk_idx) ==
    IF i < parity_disk_idx THEN i ELSE i + 1

\* The write_block calls of one stripe, in thread order: idx 0..n-2 carry the
\* data blocks, idx n-1 the parity block.
stripe_transfers(file_data, stripe, n, striping_unit) ==
    LET data_per_stripe == (n - 1) * striping_unit
        stripe_data == stripe_data_of(file_data, stripe, data_per_stripe)
        data_blocks == data_blocks_of(stripe_data, n, striping_unit)
        parity_block == calculate_parity(data_blocks)
        parity_disk_idx == get_disk_for_stripe(stripe, n)
    IN  [k \in 1..n |->
            IF k < n
            THEN [idx |-> k - 1,
                  disk_idx |-> data_disk_idx(k - 1, parity_disk_idx),
                  stripe_num |-> stripe,
                  block_type |-> "data", block_data |-> data_blocks[k]]
            ELSE [idx |-> n - 1, disk_idx |-> parity_disk_idx,
                  stripe_num |-> stripe,
                  block_type |-> "parity", block_data |-> parity_block]]

(***************************************************************************)
(* user.py and disk.py: one store-block exchange.  store_block_on_disk     *)
(* sends the store-block message and then the raw block; the node answers  *)
(* the message, and its handle_command_client loop then reads the raw      *)
(* block as the next length-prefixed message.                              *)
(***************************************************************************)
\* struct.unpack('!I', length_data)[0], for a length below 2^24
be24(bytes) == (bytes[2] * 256 + bytes[3]) * 256 + bytes[4]

\* receive_message applied to raw bytes: the message body, empty when the
\* bytes hold no complete message (receive_message returns None) or an empty
\* one; in both cases the handler loop ends.  A block is at most 2^20 bytes,
\* so a length of 2^24 or more (a first byte other than 0) is never complete.
first_message(bytes) ==
    IF Len(bytes) < 4 THEN <<>>
    ELSE IF bytes[1] # 0 THEN <<>>
    ELSE IF Len(bytes) - 4 < be24(bytes) THEN <<>>
    ELSE SubSeq(bytes, 5, 4 + be24(bytes))

\* b"fail"
FailText == <<102, 97, 105, 108>>

\* A block whose first bytes are the length-prefixed message "fail".
SmuggledFail == <<0, 0, 0, 4>> \o FailText

\* The command the node decodes from the raw bytes that follow a request,
\* "" when there is none.  Of the texts a block may hold, only the one that
\* changes the node for the files of this model is decoded.
trailing_command(payload) ==
    IF first_message(payload) = FailText THEN "fail" ELSE ""

\* What can happen to one connection of the client to a node: the exchange
\* completes ("ok"), the connection cannot be made or is lost before the node
\* has the request ("refused"), or it is lost after the node has handled the
\* request and before the client has the response ("dropped").
Faults == {"ok", "refused", "dropped"}

\* The store-block message of a transfer.
store_block_args(dss, file, t) ==
    <<dss, file, str(t.stripe_num), t.block_type, str(Len(t.block_data))>>

\* The node at port p after its handler thread has run process_command on a
\* request.  tested: the thread has read self.failed as False in an earlier
\* step and has waited for the lock since; otherwise the test and the
\* command under the lock are taken together.
node_command(p, tested, command, args) ==
    IF tested
    THEN disk_after_test(failed[p], storage[p], command, args)
    ELSE disk_process_command(failed[p], storage[p], command, args)

\* The node at the port a transfer is sent to, after its handler thread has
\* run process_command on the store-block message: the response it sends,
\* its storage and its Failed flag.  The raw block that follows the message
\* is not read by then.
node_after_store(p, dss, file, t, fault, tested) ==
    IF fault = "refused" \/ p \notin Ports
    THEN [resp |-> NodeResponse("", <<>>), store |-> storage[p],
          failed |-> failed[p]]
    ELSE node_command(p, tested, "store-block",
                      store_block_args(dss, file, t))

\* handle_command_client after a request was answered: the loop goes on to
\* receive_message, which takes the raw bytes that followed the request as
\* the next message.  The commands so received and not yet read by the
\* handler thread, after a request answered with r and followed by payload;
\* after an exception the loop has ended and nothing more is read.
unread_after(pending, r, payload) ==
    IF r.status \in {"", EXCEPTION} \/ trailing_command(payload) = ""
    THEN pending
    ELSE Append(pending, trailing_command(payload))

\* disk_info[disk_idx]['port']
port_of(info, disk_idx) == info[disk_idx + 1].port

\* The files copied: lengths and contents (byte i is (a * i + b) mod 256).
FileLengths == {0, 1, 128, 300, 1000}
Patterns == {<<1, 0>>, <<7, 13>>, <<0, 255>>}
CopyUnits == {128, 256}
StoreUnits == {128}

FileBytes(len, pat) == [i \in 1..len |-> (pat[1] * (i - 1) + pat[2]) % 256]

\* The disk list of an array of n nodes: disk i listens on port 9000 + i.
array_disk_info(n) ==
    [i \in 1..n |-> [name |-> "d" \o str(i), address |-> Addr,
                     port |-> 9000 + i]]

InitCopy ==
    /\ ManagerIdle
    /\ ParityIdle
    /\ ConcIdle
    /\ NodesIdle
    /\ ClientIdle
    /\ ThreadsIdle
    /\ OtherIdle
    /\ copy_pc = "copying"
    /\ copy_data \in {FileBytes(len, pat) : len \in FileLengths,
                                            pat \in Patterns}
                    \cup {SmuggledFail}
    /\ copy_n \in 3..MaxCopyDisks
    /\ copy_unit \in CopyUnits
    /\ stripe_num = 0
    /\ transfers = <<>>
    /\ results = <<>>
    /\ copy_dss = "A"
    /\ copy_name = "f1"
    /\ copy_disks = array_disk_info(copy_n)

\* Variant: the results of a stripe are not examined.
all_stored_unchecked(res) == TRUE

\* all(results[:len(threads)])
all_stored(res) == \A k \in DOMAIN res : res[k]

(***************************************************************************)
(* user.py: the write path thread by thread.  perform_copy_operation       *)
(* starts the n write_block threads of a stripe one after the other, each   *)
(* thread runs store_block_on_disk on its own, and the loop then joins      *)
(* them.  threads is the list of the threads started so far by the call,   *)
(* those of earlier stripes kept as history: the stripe of each, where it   *)
(* stands, the response the node sent it, and what it stored in results.    *)
(* On the node, the handler thread of the connection handles the request    *)
(* and later reads on.                                                      *)
(***************************************************************************)
\* The threads of the stripe the loop is at.
ThreadsOf(stripe) == {k \in 1..Len(threads) : threads[k].stripe_num = stripe}

\* threading.Thread(target=write_block, ...); threads.append(t); t.start()
StartThread ==
    /\ copy_pc = "copying"
    /\ stripe_num < num_stripes(Len(copy_data), (copy_n - 1) * copy_unit)
    /\ Cardinality(ThreadsOf(stripe_num)) < copy_n
    /\ transfers' = stripe_transfers(copy_data, stripe_num, copy_n, copy_unit)
    /\ threads' = Append(threads,
                         [stripe_num |-> stripe_num,
                          idx |-> Cardinality(ThreadsOf(stripe_num)),
                          state |-> "started", response |-> "",
                          ok |-> FALSE])
    /\ UNCHANGED <<copy_pc, copy_data, copy_n, copy_unit, stripe_num, results,
                   copy_dss, copy_name, copy_disks, mvars, pvars, cvars,
                   nvars, uvars, ovars>>

\* store_block_on_disk of one thread: the connection is made and the
\* message and the block are sent; the node's handler thread reads
\* self.failed as False (process_command, "if self.failed") and waits for
\* the lock.
StoreCheck ==
    /\ \E k \in 1..Len(threads) :
        /\ threads[k].state = "started"
        /\ LET p == port_of(copy_disks, transfers[threads[k].idx + 1].disk_idx)
           IN  /\ p \in Ports
               /\ ~is_failed(failed[p])
        /\ threads' = [threads EXCEPT ![k].state = "tested"]
    /\ UNCHANGED <<wvars, mvars, pvars, cvars, nvars, uvars, ovars>>

\* store_block_on_disk of one thread up to "Wait for response": the
\* connection is made, the message and the block are sent, and the node's
\* handler thread runs process_command on the message (from the lock on
\* when it has passed the test of self.failed before); or the connection is
\* refused and the thread returns False.
ServeStore ==
    /\ \E k \in 1..Len(threads), fault \in {"ok", "refused"} :
        /\ \/ threads[k].state = "started"
           \/ threads[k].state = "tested" /\ fault = "ok"
        /\ LET t == transfers[threads[k].idx + 1]
               p == port_of(copy_disks, t.disk_idx)
               after == node_after_store(p, copy_dss, copy_name, t, fault,
                                         threads[k].state = "tested")
           IN  IF fault = "refused" \/ p \notin Ports
               THEN /\ threads' = [threads EXCEPT ![k].state = "returned",
                                                  ![k].ok = FALSE]
                    /\ UNCHANGED <<storage, failed, unread>>
               ELSE /\ threads' = [threads EXCEPT
                                    ![k].state = "served",
                                    ![k].response = after.resp.status]
                    /\ storage' = [storage EXCEPT ![p] = after.store]
                    /\ failed' = [failed EXCEPT ![p] = after.failed]
                    /\ unread' = [unread EXCEPT
                                    ![p] = unread_after(@, after.resp,
                                                        t.block_data)]
    /\ UNCHANGED <<wvars, mvars, pvars, cvars, node_lock, handlers, served,
                   uvars, ovars>>

\* store_block_on_disk from "Wait for response": the thread receives the
\* node's response, or the connection is lost, and write_block stores the
\* result.
ReceiveResult ==
    /\ \E k \in 1..Len(threads), fault \in {"ok", "dropped"} :
        /\ threads[k].state = "served"
        /\ threads' = [threads EXCEPT
                        ![k].state = "returned",
                        ![k].ok = /\ fault = "ok"
                                  /\ threads[k].response = SUCCESS]
    /\ UNCHANGED <<wvars, mvars, pvars, cvars, nvars, uvars, ovars>>

\* handle_command_client, the next pass of the loop of a connection whose
\* request was answered: the bytes that followed the request are received
\* as a message and process_command runs on it.
ReadTrailing ==
    /\ \E p \in Ports :
        /\ unread[p] # <<>>
        /\ LET out == disk_process_command(failed[p], storage[p],
                                           Head(unread[p]), <<>>)
           IN  /\ storage' = [storage EXCEPT ![p] = out.store]
               /\ failed' = [failed EXCEPT ![p] = out.failed]
               /\ unread' = [unread EXCEPT ![p] = Tail(@)]
    /\ UNCHANGED <<wvars, mvars, pvars, cvars, node_lock, handlers, served,
                   uvars, tvars, ovars>>

\* "for t in threads: t.join()" has returned; "if not all(results)".
JoinStripe ==
    /\ copy_pc = "copying"
    /\ Cardinality(ThreadsOf(stripe_num)) = copy_n
    /\ \A k \in ThreadsOf(stripe_num) : threads[k].state = "returned"
    /\ LET res == [i \in 1..copy_n |->
                    threads[CHOOSE k \in ThreadsOf(stripe_num) :
                                threads[k].idx = i - 1].ok]
       IN  /\ results' = res
           /\ IF all_stored(res)
              THEN stripe_num' = stripe_num + 1 /\ copy_pc' = "copying"
              ELSE stripe_num' = stripe_num /\ copy_pc' = "failed"
    /\ UNCHANGED <<copy_data, copy_n, copy_unit, transfers, copy_dss,
                   copy_name, copy_disks, except_copy_nodes, nvars>>

\* The loop is exhausted: return True.
CopyReturn ==
    /\ copy_pc = "copying"
    /\ stripe_num = num_stripes(Len(copy_data), (copy_n - 1) * copy_unit)
    /\ copy_pc' = "done"
    /\ UNCHANGED <<copy_data, copy_n, copy_unit, stripe_num, transfers,
                   results, copy_dss, copy_name, copy_disks, except_copy>>

NextCopy ==
    \/ StartThread
    \/ StoreCheck
    \/ ServeStore
    \/ ReceiveResult
    \/ ReadTrailing
    \/ JoinStripe
    \/ CopyReturn

SpecCopy == InitCopy /\ [][NextCopy]_vars

\* The write path with two files and one striping unit, for the order of the
\* threads.
ThreadFiles == {FileBytes(len, <<1, 0>>) : len \in {1, 300}}

InitThreads ==
    /\ InitCopy
    /\ copy_data \in ThreadFiles
    /\ copy_unit = 128

NextThreads ==
    \/ StartThread
    \/ StoreCheck
    \/ ServeStore
    \/ ReceiveResult
    \/ JoinStripe
    \/ CopyReturn

SpecThreads == InitThreads /\ [][NextThreads]_vars

(***************************************************************************)
(* user.py: DSS_User, the client's operations.  The client runs one        *)
(* operation at a time (interactive_mode); client holds the operation in   *)
(* progress, its position and its locals.  Four fields are history:        *)
(* written is the content of the last file whose copy the client finished  *)
(* with a copy-complete, acked whether that copy-complete was answered     *)
(* SUCCESS, prev the operation before this one and its result, lost        *)
(* whether a connection to a node was refused or lost in this operation.   *)
(* Positions: "copy" while perform_copy_operation runs, "read" in the      *)
(* stripe loop of perform_read_operation, "fail_disk", "recover_ls",       *)
(* "recover" and "recover_store" in disk_failure_with_recovery and         *)
(* recover_file_on_failed_disk, "decommission" in the disk loop of         *)
(* decommission_dss, "blocked" when read_block_from_disk waits in          *)
(* sock.recv for bytes the node does not send (the socket has no timeout   *)
(* and the node waits for the next request), "crashed" when an exception   *)
(* leaves interactive_mode.                                                *)
(***************************************************************************)
TheUser == "alice"
TheDss == "A"
TheFile == "f1"

\* The local files the client copies.
LocalFiles ==
    {FileBytes(len, <<1, 0>>) : len \in {0, 1, 300, 1000}}
    \cup {SmuggledFail}

\* send_command_to_manager: the request is handled and answered.
Ask(command, args) ==
    /\ process_command(command, args)
    /\ last' = [cmd |-> command, args |-> args]
    /\ completed' = Observe(command, args, resp')
    /\ steps' = steps + 1

\* The disk_info list parsed from the tokens of a response; base_idx is the
\* index of the first disk name (the status token has index 0).
parse_disk_info(parts, base_idx, num_disks) ==
    LET count == Cardinality({i \in 0..(num_disks - 1) :
                                base_idx + i * 3 + 2 <= Len(parts)})
    IN  [k \in 1..count |->
            [name |-> parts[base_idx + (k - 1) * 3],
             address |-> parts[base_idx + (k - 1) * 3 + 1],
             port |-> int(parts[base_idx + (k - 1) * 3 + 2])]]

\* An operation starts: the client is at the prompt.
AtPrompt == client.pc = "idle" /\ client.ops < MaxOps

\* The operation returns.
Return(c, value) == [c EXCEPT !.pc = "idle", !.result = value]

Begin(operation) ==
    [client EXCEPT !.op = operation, !.result = "", !.ops = @ + 1,
                   !.prev = [op |-> client.op, result |-> client.result],
                   !.lost = FALSE, !.recovered = <<>>]

\* copy_file_to_dss, up to the call of perform_copy_operation
StartCopy ==
    /\ AtPrompt
    /\ \E data \in LocalFiles :
        /\ Ask("copy", <<TheFile, str(Len(data)), TheUser>>)
        /\ IF resp'.status = EXCEPTION
           THEN /\ client' = [Begin("copy") EXCEPT !.pc = "crashed"]
                /\ UNCHANGED wvars
           ELSE IF resp'.status # SUCCESS \/ Len(resp'.parts) < 5
           THEN /\ client' = Return(Begin("copy"), "failed")
                /\ UNCHANGED wvars
           ELSE /\ client' = [Begin("copy") EXCEPT !.pc = "copy"]
                /\ copy_pc' = "copying"
                /\ copy_data' = data
                /\ copy_dss' = resp'.parts[1]
                /\ copy_name' = TheFile
                /\ copy_n' = int(resp'.parts[3])
                /\ copy_unit' = int(resp'.parts[4])
                /\ copy_disks' = parse_disk_info(resp'.parts, 6,
                                                 int(resp'.parts[5]))
                /\ stripe_num' = 0
                /\ transfers' = <<>>
                /\ results' = <<>>
    /\ threads' = <<>>
    /\ UNCHANGED <<pvars, cvars, ovars, nvars>>

\* Variant: the completion report does not depend on the result.
success_ignored(pc) == TRUE

\* copy_file_to_dss: "if success:"
success(pc) == pc = "done"

\* copy_file_to_dss, after perform_copy_operation has returned
FinishCopy ==
    /\ client.pc = "copy"
    /\ copy_pc \in {"done", "failed"}
    /\ IF success(copy_pc)
       THEN /\ Ask("copy-complete",
                   <<copy_dss, copy_name, TheUser, str(Len(copy_data))>>)
            /\ client' = [Return(client,
                                 IF copy_pc = "done" THEN "ok" ELSE "failed")
                            EXCEPT !.written = copy_data,
                                   !.acked = resp'.status = SUCCESS]
       ELSE /\ UNCHANGED mvars
            /\ client' = Return(client, "failed")
    /\ copy_pc' = "idle"
    /\ UNCHANGED <<copy_data, copy_n, copy_unit, stripe_num, transfers,
                   results, copy_dss, copy_name, copy_disks,
                   except_client, nvars>>

\* The result of read_block_from_disk: None, a block, or no return.
NoBlock == [kind |-> "none", data |-> <<>>]

\* read_block_from_disk against the node at port p
read_block_from_disk(p, dss, file, stripe, fault, tested) ==
    IF fault # "ok" \/ p \notin Ports THEN NoBlock
    ELSE LET response == node_command(p, tested, "read-block",
                                      <<dss, file, str(stripe)>>).resp
         IN  IF response.status # SUCCESS THEN NoBlock
             ELSE IF Len(response.parts) < 2 THEN NoBlock
             ELSE LET data_size == int(response.parts[1])
                  IN  IF data_size <= 0 THEN [kind |-> "data", data |-> <<>>]
                      ELSE IF Len(response.payload) >= data_size
                      THEN [kind |-> "data",
                            data |-> SubSeq(response.payload, 1, data_size)]
                      ELSE [kind |-> "blocked", data |-> <<>>]

\* read_file_from_dss, up to the stripe loop of perform_read_operation
StartRead ==
    /\ AtPrompt
    /\ Ask("read", <<TheDss, TheFile, TheUser>>)
    /\ client' =
        IF resp'.status = EXCEPTION
        THEN [Begin("read") EXCEPT !.pc = "crashed"]
        ELSE IF resp'.status # SUCCESS \/ Len(resp'.parts) < 4
        THEN Return(Begin("read"), "failed")
        ELSE [Begin("read") EXCEPT
                !.pc = "read", !.dss_name = TheDss, !.file_name = TheFile,
                !.file_size = int(resp'.parts[1]),
                !.n = int(resp'.parts[2]),
                !.striping_unit = int(resp'.parts[3]),
                !.disk_info = parse_disk_info(resp'.parts, 5,
                                              int(resp'.parts[4])),
                !.stripe_num = 0, !.i = 0, !.blocks = <<>>,
                !.file_data = <<>>, !.output = <<>>]
    /\ UNCHANGED <<wvars, except_client, nvars>>

\* math.ceil(file_size / data_per_stripe) for the operation in progress
client_stripes ==
    num_stripes(client.file_size, (client.n - 1) * client.striping_unit)

\* Variant: the parity slot is not skipped.
read_disk_idx_unshifted(i, parity_disk_idx) == i

\* read_stripe: disk_idx = i if i < parity_disk_idx else i + 1
read_disk_idx(i, parity_disk_idx) ==
    IF i < parity_disk_idx THEN i ELSE i + 1

\* The port of the node the next request of the client's operation goes
\* to, 0 when there is none.
ExchangePort ==
    IF client.pc = "read" /\ client.stripe_num < client_stripes
    THEN LET disk_idx == read_disk_idx(client.i,
                            get_disk_for_stripe(client.stripe_num, client.n))
         IN  IF disk_idx + 1 > Len(client.disk_info) THEN 0
             ELSE port_of(client.disk_info, disk_idx)
    ELSE IF client.pc \in {"fail_disk", "recover_store"}
    THEN port_of(client.disk_info, client.failed_disk_idx)
    ELSE IF /\ client.pc = "recover"
            /\ client.file <= Len(client.files_on_dss)
            /\ client.stripe_num < client_stripes
    THEN IF client.i + 1 > Len(client.disk_info) THEN 0
         ELSE port_of(client.disk_info, client.i)
    ELSE IF client.pc = "decommission" /\ client.i < Len(client.disk_info)
    THEN port_of(client.disk_info, client.i)
    ELSE 0

\* The client has sent its request to a node and waits for the response; the
\* node's handler thread reads self.failed as False (process_command, "if
\* self.failed") and waits for the lock.
ClientCheck ==
    /\ ~client.tested
    /\ ExchangePort \in Ports
    /\ ~is_failed(failed[ExchangePort])
    /\ client' = [client EXCEPT !.tested = TRUE]
    /\ UNCHANGED <<mvars, wvars, except_client, nvars>>

\* read_stripe: one iteration of the block loop; after the last block of a
\* stripe the blocks are joined and appended to file_data.
ReadBlock ==
    /\ client.pc = "read"
    /\ client.stripe_num < client_stripes
    /\ \E fault \in {"ok", "refused"} :
        (fault = "refused" => ~client.tested) /\
        LET parity_disk_idx == get_disk_for_stripe(client.stripe_num, client.n)
            disk_idx == read_disk_idx(client.i, parity_disk_idx)
            block_data ==
                IF disk_idx + 1 > Len(client.disk_info) THEN NoBlock
                ELSE read_block_from_disk(
                        port_of(client.disk_info, disk_idx), client.dss_name,
                        client.file_name, client.stripe_num, fault,
                        client.tested)
            data_blocks == Append(client.blocks, block_data.data)
            c == [client EXCEPT !.lost = @ \/ fault # "ok",
                                !.tested = FALSE]
        IN  client' =
                IF block_data.kind = "none" THEN Return(c, "failed")
                ELSE IF block_data.kind = "blocked"
                THEN [c EXCEPT !.pc = "blocked"]
                ELSE IF client.i + 1 < client.n - 1
                THEN [c EXCEPT !.i = @ + 1, !.blocks = data_blocks]
                ELSE [c EXCEPT
                        !.i = 0, !.blocks = <<>>, !.stripe_num = @ + 1,
                        !.file_data = @ \o Flatten(data_blocks)]
    /\ UNCHANGED <<mvars, wvars, except_client, nvars>>

\* perform_read_operation returns file_data[:file_size]; read_file_from_dss
\* writes it out and reports read-complete when it is not empty.
FinishRead ==
    /\ client.pc = "read"
    /\ client.stripe_num >= client_stripes
    /\ LET file_data == Slice(client.file_data, 0, client.file_size)
       IN  IF file_data # <<>>
           THEN /\ Ask("read-complete",
                       <<client.dss_name, client.file_name, TheUser>>)
                /\ client' = [Return(client, "ok") EXCEPT !.output = file_data]
           ELSE /\ UNCHANGED mvars
                /\ client' = Return(client, "failed")
    /\ UNCHANGED <<wvars, except_client, nvars>>

\* "dss_name in line" for an array's descriptor line.  The array names of
\* this model are single letters: "B" occurs in the text every descriptor
\* line ends with (" B."), "A" only where it is the array's name.
name_in_line(dss_name, line) == dss_name = line.name \/ dss_name = "B"

\* disk_failure_with_recovery: the files collected from the lines of a
\* listing; in_target_dss is set by a descriptor line that holds dss_name and
\* cleared by any other descriptor line.
RECURSIVE files_of(_, _, _)
files_of(lines, dss_name, in_target_dss) ==
    IF lines = <<>> THEN <<>>
    ELSE IF Head(lines).kind = "dss"
    THEN files_of(Tail(lines), dss_name, name_in_line(dss_name, Head(lines)))
    ELSE IF in_target_dss
    THEN <<[name |-> Head(lines).name, size |-> int(Head(lines).size)]>>
         \o files_of(Tail(lines), dss_name, in_target_dss)
    ELSE files_of(Tail(lines), dss_name, in_target_dss)

\* The first index from i on that is not the failed disk's.
surviving(i, failed_disk_idx) == IF i = failed_disk_idx THEN i + 1 ELSE i

\* recover_file_on_failed_disk is entered for file k of files_on_dss.
enter_file(c, k) ==
    [c EXCEPT !.file = k,
              !.file_name = IF k <= Len(c.files_on_dss)
                            THEN c.files_on_dss[k].name ELSE @,
              !.file_size = IF k <= Len(c.files_on_dss)
                            THEN c.files_on_dss[k].size ELSE @,
              !.stripe_num = 0,
              !.i = surviving(0, c.failed_disk_idx),
              !.blocks = <<>>]

\* Variant: any answer to fail is taken for the acknowledgment.
fail_acknowledged_any(response) == TRUE

\* if response != "FAIL-COMPLETE": return False
fail_acknowledged(response) == response = NodeResponse(FAIL_COMPLETE, <<>>)

\* disk_failure_with_recovery, phase 1: the array's parameters are asked
\* for and a disk is drawn.
StartFailure ==
    /\ AtPrompt
    /\ Ask("disk-failure", <<TheDss>>)
    /\ IF resp'.status = EXCEPTION
       THEN client' = [Begin("recover") EXCEPT !.pc = "crashed"]
       ELSE IF resp'.status # SUCCESS
       THEN client' = Return(Begin("recover"), "failed")
       ELSE \E failed_disk_idx \in 0..(int(resp'.parts[1]) - 1) :
            LET disk_info == parse_disk_info(resp'.parts, 4,
                                             int(resp'.parts[3]))
            IN  client' = [Begin("recover") EXCEPT
                             !.dss_name = TheDss,
                             !.n = int(resp'.parts[1]),
                             !.striping_unit = int(resp'.parts[2]),
                             !.disk_info = disk_info,
                             !.failed_disk_idx = failed_disk_idx,
                             !.pc = IF failed_disk_idx + 1 > Len(disk_info)
                                    THEN "crashed" ELSE "fail_disk"]
    /\ UNCHANGED <<wvars, except_client, nvars>>

\* disk_failure_with_recovery, "Send fail command to the selected disk": the
\* exchange with the node and the test of its response.
FailDisk ==
    /\ client.pc = "fail_disk"
    /\ \E fault \in Faults :
        /\ fault = "refused" => ~client.tested
        /\ LET p == port_of(client.disk_info, client.failed_disk_idx)
               c == [client EXCEPT !.lost = fault # "ok", !.tested = FALSE]
           IN  IF fault = "refused" \/ p \notin Ports
               THEN /\ client' = Return(c, "failed")
                    /\ UNCHANGED failed
               ELSE LET out == node_command(p, client.tested, "fail", <<>>)
                    IN  /\ failed' = [failed EXCEPT ![p] = out.failed]
                        /\ client' =
                            IF fault = "ok" /\ fail_acknowledged(out.resp)
                            THEN [c EXCEPT !.pc = "recover_ls",
                                           !.fail_response = out.resp.status]
                            ELSE Return(c, "failed")
    /\ UNCHANGED <<mvars, wvars, except_client, storage, node_lock, handlers,
                   served, unread>>

\* disk_failure_with_recovery, phase 2: the files of the array are taken from
\* a listing.
ListForRecovery ==
    /\ client.pc = "recover_ls"
    /\ Ask("ls", <<>>)
    /\ client' =
        IF resp'.status = EXCEPTION THEN [client EXCEPT !.pc = "crashed"]
        ELSE enter_file(
                [client EXCEPT
                    !.pc = "recover",
                    !.files_on_dss =
                        IF resp'.status = SUCCESS
                        THEN files_of(resp'.lines, client.dss_name, FALSE)
                        ELSE <<>>], 1)
    /\ UNCHANGED <<wvars, except_client, nvars>>

\* recover_file_on_failed_disk after one read_block_from_disk: "if block_data
\* is None: return False", else blocks.append(block_data) and the loop over
\* the disks goes on; after the last surviving block the stripe is at its
\* write-back.  A read that does not return leaves the client blocked.
after_read(c, block_data) ==
    LET blocks == Append(c.blocks, block_data.data)
        next_i == surviving(c.i + 1, c.failed_disk_idx)
    IN  IF block_data.kind = "none" THEN Return(c, "failed")
        ELSE IF block_data.kind = "blocked" THEN [c EXCEPT !.pc = "blocked"]
        ELSE IF next_i < c.n THEN [c EXCEPT !.i = next_i, !.blocks = blocks]
        ELSE [c EXCEPT !.pc = "recover_store", !.blocks = blocks]

\* recovered_block = calculate_parity(blocks) and its block_type: what the
\* write-back of the stripe sends.
recovered_block(c) ==
    [stripe_num |-> c.stripe_num,
     block_type |-> IF c.failed_disk_idx =
                        get_disk_for_stripe(c.stripe_num, c.n)
                    THEN "parity" ELSE "data",
     block_data |-> calculate_parity(c.blocks)]

\* Variant: the result of the write-back is not looked at.
write_back_failed_never(stored) == FALSE

\* if not success: return False
write_back_failed(stored) == ~stored

\* recover_file_on_failed_disk after store_block_on_disk has returned stored:
\* the function returns False or goes on to the next stripe.  recovered is
\* the list of the write-backs made (history): the stripe, the block and its
\* type, the blocks it was computed from, and what store_block_on_disk
\* returned.
after_write_back(c, t, stored) ==
    LET d == [c EXCEPT
                !.recovered =
                    Append(@, t @@ [blocks |-> c.blocks,
                                    file_name |-> c.file_name,
                                    ok |-> stored])]
    IN  IF write_back_failed(stored) THEN Return(d, "failed")
        ELSE [d EXCEPT !.pc = "recover",
                       !.stripe_num = @ + 1, !.blocks = <<>>,
                       !.i = surviving(0, c.failed_disk_idx)]

\* recover_file_on_failed_disk: one step of the block loop.  At "recover"
\* a surviving block is read; at "recover_store", after the last surviving
\* block of a stripe, the XOR of the blocks is stored on the failed disk.
RecoverBlock ==
    /\ client.pc \in {"recover", "recover_store"}
    /\ client.file <= Len(client.files_on_dss)
    /\ client.stripe_num < client_stripes
    /\ IF client.pc = "recover"
       THEN \E fault \in {"ok", "refused"} :
            (fault = "refused" => ~client.tested) /\
            LET block_data ==
                    IF client.i + 1 > Len(client.disk_info) THEN NoBlock
                    ELSE read_block_from_disk(
                            port_of(client.disk_info, client.i),
                            client.dss_name, client.file_name,
                            client.stripe_num, fault, client.tested)
                c == [client EXCEPT !.lost = @ \/ fault # "ok",
                                    !.tested = FALSE]
            IN  /\ client' = after_read(c, block_data)
                /\ UNCHANGED <<failed, storage, unread>>
       ELSE \E store_fault \in Faults :
            /\ store_fault = "refused" => ~client.tested
            /\ LET t == recovered_block(client)
                   p == port_of(client.disk_info, client.failed_disk_idx)
                   after == node_after_store(p, client.dss_name,
                                             client.file_name, t, store_fault,
                                             client.tested)
                   c == [client EXCEPT !.lost = @ \/ store_fault # "ok",
                                       !.tested = FALSE]
               IN  /\ IF p \in Ports
                      THEN /\ storage' = [storage EXCEPT ![p] = after.store]
                           /\ failed' = [failed EXCEPT ![p] = after.failed]
                           /\ unread' = [unread EXCEPT
                                   ![p] = unread_after(@, after.resp,
                                                       t.block_data)]
                      ELSE UNCHANGED <<failed, storage, unread>>
                   /\ client' =
                        after_write_back(c, t,
                                         /\ store_fault = "ok"
                                         /\ p \in Ports
                                         /\ after.resp.status = SUCCESS)
    /\ UNCHANGED <<mvars, wvars, except_client, node_lock, handlers, served>>

\* recover_file_on_failed_disk returns True: the next file
RecoverReturn ==
    /\ client.pc = "recover"
    /\ client.file <= Len(client.files_on_dss)
    /\ client.stripe_num >= client_stripes
    /\ client' = enter_file(client, client.file + 1)
    /\ UNCHANGED <<mvars, wvars, except_client, nvars>>

\* disk_failure_with_recovery, phase 3
FinishRecovery ==
    /\ client.pc = "recover"
    /\ client.file > Len(client.files_on_dss)
    /\ Ask("recovery-complete",
           <<client.dss_name,
             client.disk_info[client.failed_disk_idx + 1].name>>)
    /\ client' = Return(client, IF resp' = Ok THEN "ok" ELSE "failed")
    /\ UNCHANGED <<wvars, except_client, nvars>>

\* decommission_dss, up to the loop over the disks
StartDecommission ==
    /\ AtPrompt
    /\ Ask("decommission-dss", <<TheDss>>)
    /\ client' =
        IF resp'.status = EXCEPTION
        THEN [Begin("decommission") EXCEPT !.pc = "crashed"]
        ELSE IF resp'.status # SUCCESS
        THEN Return(Begin("decommission"), "failed")
        ELSE [Begin("decommission") EXCEPT
                !.pc = "decommission", !.dss_name = TheDss,
                !.n = int(resp'.parts[1]),
                !.disk_info = parse_disk_info(resp'.parts, 4,
                                              int(resp'.parts[3])),
                !.i = 0]
    /\ UNCHANGED <<wvars, except_client, nvars>>

\* decommission_dss: one iteration of "for disk in disk_info"; the response
\* to delete-all is printed and otherwise ignored, as is an exception.
DeleteOnDisk ==
    /\ client.pc = "decommission"
    /\ client.i < Len(client.disk_info)
    /\ \E fault \in {"ok", "refused"} :
        (fault = "refused" => ~client.tested) /\
        LET p == port_of(client.disk_info, client.i)
        IN  /\ client' = [client EXCEPT !.i = @ + 1,
                                        !.lost = @ \/ fault # "ok",
                                        !.tested = FALSE]
            /\ IF fault = "ok" /\ p \in Ports
               THEN LET out == node_command(p, client.tested, "delete-all",
                                            <<client.dss_name>>)
                    IN  /\ storage' = [storage EXCEPT ![p] = out.store]
                        /\ failed' = [failed EXCEPT ![p] = out.failed]
               ELSE UNCHANGED <<failed, storage>>
    /\ UNCHANGED <<mvars, wvars, except_client, node_lock, handlers,
                   served, unread>>

\* decommission_dss: the completion report
FinishDecommission ==
    /\ client.pc = "decommission"
    /\ client.i >= Len(client.disk_info)
    /\ Ask("decommission-complete", <<client.dss_name>>)
    /\ client' = Return(client, IF resp' = Ok THEN "ok" ELSE "failed")
    /\ UNCHANGED <<wvars, except_client, nvars>>

\* The coordinator after alice and n disks have registered and array A has
\* been configured over the disks; the nodes are Active and empty.
InitStore ==
    /\ \E n \in 3..MaxStoreDisks, u \in StoreUnits :
        /\ users = <<[name |-> TheUser, address |-> Addr, m_port |-> 7000,
                      c_port |-> 9001]>>
        /\ disks = [i \in 1..n |->
                        [name |-> "d" \o str(i), address |-> Addr,
                         m_port |-> 7000, c_port |-> 9000 + i,
                         state |-> "InDSS"]]
        /\ dss_configs = <<[name |-> TheDss, n |-> n, striping_unit |-> u,
                            disk_order |-> [i \in 1..n |-> "d" \o str(i)]]>>
        /\ files = <<[name |-> TheDss, entries |-> <<>>]>>
        /\ last = [cmd |-> "configure-dss", args |-> <<TheDss, str(n), str(u)>>]
        /\ steps = n + 2
    /\ resp = Ok
    /\ completed = {}
    /\ ParityIdle
    /\ CopyIdle
    /\ ConcIdle
    /\ NodesIdle
    /\ ClientIdle
    /\ ThreadsIdle
    /\ OtherIdle

NextStore ==
    \/ StartCopy
    \/ StartThread
    \/ StoreCheck
    \/ ServeStore
    \/ ReceiveResult
    \/ ReadTrailing
    \/ JoinStripe
    \/ CopyReturn
    \/ FinishCopy
    \/ StartRead
    \/ ClientCheck
    \/ ReadBlock
    \/ FinishRead
    \/ StartFailure
    \/ FailDisk
    \/ ListForRecovery
    \/ RecoverBlock
    \/ RecoverReturn
    \/ FinishRecovery
    \/ StartDecommission
    \/ DeleteOnDisk
    \/ FinishDecommission

SpecStore == InitStore /\ [][NextStore]_vars

(***************************************************************************)
(* user.py, manager.py: a second client.  SpecRace runs the copy of the    *)
(* first client (alice) while a second client (bob) sends commands of its  *)
(* own to the coordinator and runs a copy of its own; each request is      *)
(* handled under the coordinator's lock, and the transfers of the two       *)
(* copies run thread by thread, in any order.  The state at the start      *)
(* is the coordinator's after register-disk s1, s2, s3; configure-dss B 3  *)
(* 128; register-disk d1, d2, d3; configure-dss A 3 128;                   *)
(* decommission-complete B; register-user alice.                           *)
(***************************************************************************)
OtherUser == "bob"

OtherFile == FileBytes(1, <<1, 0>>)

spare_port(i) == 9000 + MaxCopyDisks + i

OtherCommand(command, args) ==
    /\ other.commands < MaxOtherCommands
    /\ Ask(command, args)

\* bob: decommission-complete for the array
OtherDecommissionComplete ==
    /\ other.pc = "idle"
    /\ OtherCommand("decommission-complete", <<TheDss>>)
    /\ other' = [other EXCEPT !.commands = @ + 1]
    /\ UNCHANGED <<wvars, except_other, nvars>>

\* bob: configure-dss with the array's name
OtherConfigure ==
    /\ other.pc = "idle"
    /\ OtherCommand("configure-dss", <<TheDss, "3", "128">>)
    /\ other' = [other EXCEPT !.commands = @ + 1]
    /\ UNCHANGED <<wvars, except_other, nvars>>

\* bob: copy_file_to_dss, up to the call of perform_copy_operation
OtherStartCopy ==
    /\ other.pc = "idle"
    /\ OtherCommand("copy", <<TheFile, str(Len(OtherFile)), OtherUser>>)
    /\ other' =
        IF resp'.status # SUCCESS \/ Len(resp'.parts) < 5
        THEN [other EXCEPT !.commands = @ + 1]
        ELSE [other EXCEPT
                !.commands = @ + 1, !.pc = "copy",
                !.concurrent = client.pc = "copy",
                !.dss_name = resp'.parts[1],
                !.n = int(resp'.parts[3]),
                !.striping_unit = int(resp'.parts[4]),
                !.disk_info = parse_disk_info(resp'.parts, 6,
                                              int(resp'.parts[5])),
                !.stripe_num = 0]
    /\ UNCHANGED <<wvars, except_other, nvars>>

\* The connections of the two copies that were refused or lost so far; a run
\* of the two copies has at most MaxRaceFaults of them.
FaultsOf(ths) ==
    Cardinality({k \in 1..Len(ths) :
                    /\ ths[k].state = "returned"
                    /\ ~ths[k].ok
                    /\ ths[k].response \in {"", SUCCESS}})

MoreFaults == FaultsOf(threads) + other.faults < MaxRaceFaults

\* alice: the steps of her threads.
RaceServeStore ==
    /\ ServeStore
    /\ FaultsOf(threads') + other.faults <= MaxRaceFaults

RaceReceiveResult ==
    /\ ReceiveResult
    /\ FaultsOf(threads') + other.faults <= MaxRaceFaults

\* The write_block calls of the stripe bob's loop is at.
OtherTransfers ==
    stripe_transfers(OtherFile, other.stripe_num, other.n,
                     other.striping_unit)

\* bob: threading.Thread(target=write_block, ...); threads.append(t);
\* t.start()
OtherStartThread ==
    /\ other.pc = "copy"
    /\ other.stripe_num < num_stripes(Len(OtherFile),
                                      (other.n - 1) * other.striping_unit)
    /\ Len(other.threads) < other.n
    /\ other' = [other EXCEPT
                    !.threads = Append(@, [idx |-> Len(other.threads),
                                           state |-> "started",
                                           response |-> "", ok |-> FALSE])]
    /\ UNCHANGED <<mvars, wvars, except_other, nvars>>

\* bob: store_block_on_disk of one thread: the request is sent and the
\* node's handler thread reads self.failed as False and waits for the lock.
OtherStoreCheck ==
    /\ \E k \in 1..Len(other.threads) :
        /\ other.threads[k].state = "started"
        /\ LET t == OtherTransfers[other.threads[k].idx + 1]
               p == port_of(other.disk_info, t.disk_idx)
           IN  /\ p \in Ports
               /\ ~is_failed(failed[p])
        /\ other' = [other EXCEPT !.threads[k].state = "tested"]
    /\ UNCHANGED <<mvars, wvars, except_other, nvars>>

\* bob: store_block_on_disk of one thread up to "Wait for response", the
\* node's handler thread running process_command on the message; or the
\* connection is refused and the thread returns False.
OtherServeStore ==
    /\ \E k \in 1..Len(other.threads), fault \in {"ok", "refused"} :
        /\ \/ other.threads[k].state = "started"
           \/ other.threads[k].state = "tested" /\ fault = "ok"
        /\ fault = "ok" \/ MoreFaults
        /\ LET t == OtherTransfers[other.threads[k].idx + 1]
               p == port_of(other.disk_info, t.disk_idx)
               after == node_after_store(p, other.dss_name, TheFile, t, fault,
                                         other.threads[k].state = "tested")
           IN  IF fault = "refused" \/ p \notin Ports
               THEN /\ other' = [other EXCEPT
                                    !.threads[k].state = "returned",
                                    !.threads[k].ok = FALSE,
                                    !.faults = @ + 1]
                    /\ UNCHANGED <<storage, failed, unread>>
               ELSE /\ other' = [other EXCEPT
                                    !.threads[k].state = "served",
                                    !.threads[k].response = after.resp.status]
                    /\ storage' = [storage EXCEPT ![p] = after.store]
                    /\ failed' = [failed EXCEPT ![p] = after.failed]
                    /\ unread' = [unread EXCEPT
                                    ![p] = unread_after(@, after.resp,
                                                        t.block_data)]
    /\ UNCHANGED <<mvars, wvars, except_other, node_lock, handlers, served>>

\* bob: store_block_on_disk from "Wait for response": the thread receives
\* the node's response, or the connection is lost, and write_block stores
\* the result.
OtherReceiveResult ==
    /\ \E k \in 1..Len(other.threads), fault \in {"ok", "dropped"} :
        /\ other.threads[k].state = "served"
        /\ fault = "ok" \/ MoreFaults
        /\ other' = [other EXCEPT
                        !.threads[k].state = "returned",
                        !.threads[k].ok =
                            /\ fault = "ok"
                            /\ other.threads[k].response = SUCCESS,
                        !.faults = IF fault = "ok" THEN @ ELSE @ + 1]
    /\ UNCHANGED <<mvars, wvars, except_other, nvars>>

\* bob: "for t in threads: t.join()" has returned; "if not all(results)":
\* the next stripe, or perform_copy_operation returns False and the copy
\* ends without a copy-complete.
OtherJoinStripe ==
    /\ other.pc = "copy"
    /\ Len(other.threads) = other.n
    /\ \A k \in 1..Len(other.threads) : other.threads[k].state = "returned"
    /\ other' =
        IF all_stored([k \in 1..Len(other.threads) |-> other.threads[k].ok])
        THEN [other EXCEPT !.stripe_num = @ + 1, !.threads = <<>>]
        ELSE [other EXCEPT !.pc = "idle", !.threads = <<>>]
    /\ UNCHANGED <<mvars, wvars, except_other, nvars>>

\* bob: copy_file_to_dss, after perform_copy_operation has returned True
OtherFinishCopy ==
    /\ other.pc = "copy"
    /\ other.stripe_num = num_stripes(Len(OtherFile),
                                      (other.n - 1) * other.striping_unit)
    /\ Ask("copy-complete",
           <<other.dss_name, TheFile, OtherUser, str(Len(OtherFile))>>)
    /\ other' = [other EXCEPT !.pc = "idle", !.completed = TRUE]
    /\ UNCHANGED <<wvars, except_other, nvars>>

\* alice: her copy, of a file of at most MaxRaceFileLen bytes.
RaceStartCopy ==
    /\ client.ops < MaxRaceOps
    /\ StartCopy
    /\ Len(copy_data') <= MaxRaceFileLen

InitRace ==
    /\ users = <<[name |-> TheUser, address |-> Addr, m_port |-> 7000,
                  c_port |-> 9001]>>
    /\ disks = [i \in 1..6 |->
                    IF i <= 3
                    THEN [name |-> "s" \o str(i), address |-> Addr,
                          m_port |-> 7000, c_port |-> spare_port(i),
                          state |-> "Free"]
                    ELSE [name |-> "d" \o str(i - 3), address |-> Addr,
                          m_port |-> 7000, c_port |-> 9000 + i - 3,
                          state |-> "InDSS"]]
    /\ dss_configs = <<[name |-> TheDss, n |-> 3, striping_unit |-> 128,
                        disk_order |-> <<"d1", "d2", "d3">>]>>
    /\ files = <<[name |-> TheDss, entries |-> <<>>]>>
    /\ last = [cmd |-> "register-user",
               args |-> <<TheUser, Addr, "7000", "9001">>]
    /\ steps = 10
    /\ resp = Ok
    /\ completed = {}
    /\ ParityIdle
    /\ CopyIdle
    /\ ConcIdle
    /\ NodesIdle
    /\ ClientIdle
    /\ ThreadsIdle
    /\ OtherIdle

NextRace ==
    \/ RaceStartCopy
    \/ StartThread
    \/ RaceServeStore
    \/ RaceReceiveResult
    \/ JoinStripe
    \/ CopyReturn
    \/ FinishCopy
    \/ OtherDecommissionComplete
    \/ OtherConfigure
    \/ OtherStartCopy
    \/ OtherStartThread
    \/ OtherServeStore
    \/ OtherReceiveResult
    \/ OtherJoinStripe
    \/ OtherFinishCopy

SpecRace == InitRace /\ [][NextRace]_vars

\* No command of SpecRace sets a node's Failed flag, so a node's test of the
\* flag gives the same answer wherever it falls before the command: NextRace
\* takes the test together with the command.  NextRaceTests has the test as
\* a step of its own as well.
NextRaceTests ==
    \/ NextRace
    \/ StoreCheck
    \/ OtherStoreCheck

SpecRaceTests == InitRace /\ [][NextRaceTests]_vars

(***************************************************************************)
(* user.py: read_stripe_with_verification.  SpecVerify runs one call for   *)
(* one stripe.  The n read_block_thread threads of an attempt are joined    *)
(* before the attempt goes on; what each read_block_from_disk returned     *)
(* (None or a block of the size the node announced) is an input.           *)
(***************************************************************************)
max_retries == 3

VerifyDisks == 3

\* What a block read returns: None, or a block of 0..MaxBlockLen bytes.
BlockReads ==
    {NoBlock} \cup
    {[kind |-> "data", data |-> d] :
        d \in UNION {[1..len -> {0, 1}] : len \in 0..MaxBlockLen}}

ErrorProbabilities == {0, 50}

\* Variant: the chosen bit is left as it was.
flip_bit_same(block, error_bit_idx) == block

\* blocks[error_block_idx][byte_idx] ^= (1 << bit_idx)
flip_bit(block, error_bit_idx) ==
    LET byte_idx == error_bit_idx \div 8
        bit_idx == error_bit_idx % 8
    IN  [block EXCEPT ![byte_idx + 1] = Xor(@, 2 ^ bit_idx)]

\* computed_parity == parity_block, for the n blocks of an attempt
parity_verified(blocks, n) ==
    calculate_parity([k \in 1..(n - 1) |-> blocks[k].data]) = blocks[n].data

\* for attempt in range(max_retries): the n block reads, joined;
\* "if None in blocks: continue"
ReadStripeBlocks ==
    /\ client.pc = "verify"
    /\ client.attempt < max_retries
    /\ \E blocks \in [1..client.n -> BlockReads] :
        client' = [client EXCEPT
            !.attempt = @ + 1,
            !.blocks = blocks,
            !.clean = blocks,
            !.injected = FALSE,
            !.verified = IF \E k \in 1..client.n : blocks[k] = NoBlock
                         THEN Append(@, FALSE) ELSE @,
            !.pc = IF \E k \in 1..client.n : blocks[k] = NoBlock
                   THEN "verify" ELSE "joined"]
    /\ UNCHANGED <<mvars, wvars, except_client, nvars>>

\* "Introduce error with probability p": random.randint(0, 100) <
\* error_probability is either outcome when error_probability > 0;
\* random.randint(0, len(block) * 8 - 1) raises ValueError for a block of no
\* bytes.
InjectError ==
    /\ client.pc = "joined"
    /\ \E inject \in (IF client.error_probability > 0 THEN BOOLEAN ELSE {FALSE}) :
        IF ~inject THEN client' = [client EXCEPT !.pc = "injected"]
        ELSE \E error_block_idx \in 0..(client.n - 1) :
                LET block == client.blocks[error_block_idx + 1].data
                IN  IF Len(block) = 0
                    THEN client' = [client EXCEPT !.pc = "raised",
                                                  !.result = "ValueError"]
                    ELSE \E error_bit_idx \in 0..(Len(block) * 8 - 1) :
                            client' = [client EXCEPT
                                !.pc = "injected",
                                !.injected = TRUE,
                                !.blocks[error_block_idx + 1].data =
                                    flip_bit(block, error_bit_idx)]
    /\ UNCHANGED <<mvars, wvars, except_client, nvars>>

\* "Verify parity": return the data blocks joined, or go on to the next
\* attempt
VerifyParity ==
    /\ client.pc = "injected"
    /\ client' =
        IF parity_verified(client.blocks, client.n)
        THEN [client EXCEPT
                !.pc = "returned", !.result = "data",
                !.verified = Append(@, TRUE),
                !.output = Flatten([k \in 1..(client.n - 1) |->
                                        client.blocks[k].data])]
        ELSE [client EXCEPT !.pc = "verify",
                            !.verified = Append(@, FALSE)]
    /\ UNCHANGED <<mvars, wvars, except_client, nvars>>

\* after the loop: return None
ReturnNone ==
    /\ client.pc = "verify"
    /\ client.attempt >= max_retries
    /\ client' = [client EXCEPT !.pc = "returned", !.result = "None"]
    /\ UNCHANGED <<mvars, wvars, except_client, nvars>>

InitVerify ==
    /\ ManagerIdle
    /\ ParityIdle
    /\ CopyIdle
    /\ ConcIdle
    /\ NodesIdle
    /\ ThreadsIdle
    /\ OtherIdle
    /\ \E p \in ErrorProbabilities :
        client = [IdleClient EXCEPT
                    !.pc = "verify", !.op = "verify",
                    !.dss_name = TheDss, !.file_name = TheFile,
                    !.n = VerifyDisks, !.striping_unit = 128,
                    !.error_probability = p]

NextVerify ==
    \/ ReadStripeBlocks
    \/ InjectError
    \/ VerifyParity
    \/ ReturnNone

SpecVerify == InitVerify /\ [][NextVerify]_vars

(***************************************************************************)
(* user.py: disk_failure_with_recovery against the coordinator, with what   *)
(* each exchange with a node returned as an input: the node's answer to     *)
(* fail, what each read_block_from_disk returned (None or a block) and      *)
(* what each store_block_on_disk returned.  SpecRecover starts from the     *)
(* coordinator's state after register-user alice, register-disk d1..dn,     *)
(* configure-dss A n 128 and the acknowledged copy-completes of the files   *)
(* of the directory.                                                        *)
(***************************************************************************)
MaxRecoverDisks == 4

\* The directories of array A at the start: (file, size) in copy order.
RecoverDirectories ==
    {<<>>,
     <<[name |-> "f1", size |-> 1]>>,
     <<[name |-> "f1", size |-> 300]>>,
     <<[name |-> "f1", size |-> 0], [name |-> "f2", size |-> 300]>>}

\* The status of the node's answer to fail; "" when the exchange raised (the
\* connection refused or lost) and there is none.
FailAnswers == {FAIL_COMPLETE, FAIL, ""}

InitRecover ==
    /\ \E n \in 3..MaxRecoverDisks, dir \in RecoverDirectories :
        /\ users = <<[name |-> TheUser, address |-> Addr, m_port |-> 7000,
                      c_port |-> 9001]>>
        /\ disks = [i \in 1..n |->
                        [name |-> "d" \o str(i), address |-> Addr,
                         m_port |-> 7000, c_port |-> 9000 + i,
                         state |-> "InDSS"]]
        /\ dss_configs = <<[name |-> TheDss, n |-> n, striping_unit |-> 128,
                            disk_order |-> [i \in 1..n |-> "d" \o str(i)]]>>
        /\ files = <<[name |-> TheDss,
                      entries |-> [i \in 1..Len(dir) |->
                                    [name |-> dir[i].name,
                                     size |-> dir[i].size,
                                     owner |-> TheUser]]]>>
        /\ completed = {[dss |-> TheDss, file |-> dir[i].name,
                         owner |-> TheUser, size |-> str(dir[i].size)] :
                            i \in 1..Len(dir)}
        /\ last = IF dir = <<>>
                  THEN [cmd |-> "configure-dss",
                        args |-> <<TheDss, str(n), "128">>]
                  ELSE [cmd |-> "copy-complete",
                        args |-> <<TheDss, dir[Len(dir)].name, TheUser,
                                   str(dir[Len(dir)].size)>>]
        /\ steps = n + 2 + 2 * Len(dir)
    /\ resp = Ok
    /\ ParityIdle
    /\ CopyIdle
    /\ ConcIdle
    /\ NodesIdle
    /\ ClientIdle
    /\ ThreadsIdle
    /\ OtherIdle

\* disk_failure_with_recovery, "Send fail command to the selected disk":
\* the response is compared with "FAIL-COMPLETE"; an exception returns False.
FailAnswered ==
    /\ client.pc = "fail_disk"
    /\ \E status \in FailAnswers :
        client' =
            IF status # "" /\ fail_acknowledged(NodeResponse(status, <<>>))
            THEN [client EXCEPT !.pc = "recover_ls",
                                !.fail_response = status]
            ELSE Return([client EXCEPT !.lost = TRUE,
                                       !.fail_response = status], "failed")
    /\ UNCHANGED <<mvars, wvars, except_client, nvars>>

\* recover_file_on_failed_disk: one read_block_from_disk of a surviving
\* block has returned.
SurvivingRead ==
    /\ client.pc = "recover"
    /\ client.file <= Len(client.files_on_dss)
    /\ client.stripe_num < client_stripes
    /\ \E block_data \in BlockReads :
        /\ client.i + 1 > Len(client.disk_info) => block_data = NoBlock
        /\ client' = after_read([client EXCEPT
                                    !.lost = @ \/ block_data = NoBlock],
                                block_data)
    /\ UNCHANGED <<mvars, wvars, except_client, nvars>>

\* recover_file_on_failed_disk: the recovered block is computed and
\* store_block_on_disk on the failed disk has returned.
WriteBack ==
    /\ client.pc = "recover_store"
    /\ \E stored \in BOOLEAN :
        client' = after_write_back([client EXCEPT !.lost = @ \/ ~stored],
                                   recovered_block(client), stored)
    /\ UNCHANGED <<mvars, wvars, except_client, nvars>>

NextRecover ==
    \/ StartFailure
    \/ FailAnswered
    \/ ListForRecovery
    \/ SurvivingRead
    \/ WriteBack
    \/ RecoverReturn
    \/ FinishRecovery

SpecRecover == InitRecover /\ [][NextRecover]_vars

(***************************************************************************)
(* Properties of the coordinator.                                          *)
(***************************************************************************)
ValidUnits == {2 ^ k : k \in 7..20}

NumFree == Cardinality({i \in 1..Len(disks) : disks[i].state = "Free"})

StateOf(ds, d) == IF DictHas(ds, d) THEN DictGet(ds, d).state ELSE "None"

\* The files a listing shows now, as (dss, file, size, owner).
Listed(lines) ==
    {[dss |-> lines[i].dss, file |-> lines[i].name,
      size |-> int(lines[i].size), owner |-> lines[i].owner] :
        i \in {j \in 1..Len(lines) : lines[j].kind = "file"}}

\* The acknowledged copy-completes, as (dss, file, size, owner).
Acknowledged ==
    {[dss |-> c.dss, file |-> c.file, size |-> int(c.size),
      owner |-> c.owner] : c \in completed}

\* C1: a file is listed (and readable) for an array only if a copy-complete
\* for that array and file has succeeded since the array was configured, and
\* then it is listed with the size and owner of the latest such copy-complete;
\* copy-initiate makes nothing visible.
C1_VisibleOnlyAfterCopyComplete ==
    /\ Listed(list_lines) = Acknowledged
    /\ (last.cmd = "ls" /\ resp.status = SUCCESS)
            => Listed(resp.lines) = Acknowledged
    /\ (last.cmd = "read" /\ resp.status = SUCCESS)
            => \E c \in Acknowledged :
                    /\ c.dss = last.args[1]
                    /\ c.file = last.args[2]
                    /\ c.size = int(resp.parts[1])

C1_Witness ==
    /\ last.cmd = "ls"
    /\ resp.status = SUCCESS
    /\ \E i \in 1..Len(resp.lines) :
            /\ resp.lines[i].kind = "file"
            /\ resp.lines[i].size = "1000"
            /\ resp.lines[i].owner = "alice"

\* C2: read-initiate fails when the array or the file is unknown or the user
\* is not the owner recorded by the latest successful copy-complete; it returns
\* size, n, striping unit and the disk list only to that owner.
C2_ReadOnlyByOwner ==
    (last.cmd = "read" /\ Len(last.args) = 3) =>
        LET recs == {c \in Acknowledged :
                        c.dss = last.args[1] /\ c.file = last.args[2]}
        IN  /\ (~DictHas(dss_configs, last.args[1])
                \/ recs = {}
                \/ \E c \in recs : c.owner # last.args[3])
                    => resp = Fail
            /\ resp.status = SUCCESS =>
                /\ \E c \in recs :
                        /\ c.owner = last.args[3]
                        /\ resp.parts[1] = str(c.size)
                /\ LET config == DictGet(dss_configs, last.args[1])
                   IN  /\ resp.parts[2] = str(config.n)
                       /\ resp.parts[3] = str(config.striping_unit)
                       /\ resp.parts[4] = str(config.n)
                       /\ Len(resp.parts) = 4 + 3 * config.n
                       /\ \A i \in 1..config.n :
                            resp.parts[3 * i + 2] = config.disk_order[i]

C2_Witness ==
    /\ last.cmd = "read"
    /\ Len(last.args) = 3
    /\ resp = Fail
    /\ \E c \in completed :
            /\ c.dss = last.args[1]
            /\ c.file = last.args[2]
            /\ c.owner = "alice"
            /\ last.args[3] = "bob"

\* A configure-dss request with three arguments, numeric n and striping unit.
IsConfigure(req) ==
    /\ req.cmd = "configure-dss"
    /\ Len(req.args) = 3
    /\ IsNumeric(req.args[2])
    /\ IsNumeric(req.args[3])

Changed(ds1, ds2) ==
    {d \in DiskNames : StateOf(ds1, d) # StateOf(ds2, d)}

\* What C3 says of one step.
C3_Step ==
    (/\ IsConfigure(last')
     /\ int(last'.args[2]) >= 3
     /\ int(last'.args[3]) \in ValidUnits
     /\ ~DictHas(dss_configs, last'.args[1])) =>
        LET n == int(last'.args[2])
        IN  /\ (resp'.status = SUCCESS) <=> (NumFree >= n)
            /\ resp'.status = SUCCESS =>
                /\ Cardinality(Changed(disks, disks')) = n
                /\ \A d \in Changed(disks, disks') :
                        /\ StateOf(disks, d) = "Free"
                        /\ StateOf(disks', d) = "InDSS"
                /\ \A i \in 1..Len(disks) :
                        disks[i].name \notin Changed(disks, disks')
                            => disks'[i] = disks[i]
                /\ Len(disks') = Len(disks)
            /\ NumFree < n =>
                /\ resp' = Fail
                /\ UNCHANGED <<disks, dss_configs, files>>

\* C3: for a new array name and valid (n, striping unit), configure-dss
\* succeeds exactly when at least n disks are Free; then exactly n disks go
\* from Free to InDSS and every other disk is unchanged; otherwise it fails
\* and disks, array configurations and file directories are unchanged.
C3_ConfigureSelectsExactlyN == [][C3_Step]_vars

C3_Witness ==
    /\ IsConfigure(last)
    /\ resp.status = SUCCESS
    /\ Len(disks) = 4
    /\ NumFree = 1

\* What C4 says of one step.
C4_Step ==
    IsConfigure(last') =>
        LET name == last'.args[1]
            n == int(last'.args[2])
            unit == int(last'.args[3])
            bad == \/ DictHas(dss_configs, name)
                   \/ n < 3
                   \/ unit < 128
                   \/ unit > 1048576
                   \/ unit \notin ValidUnits
        IN  /\ bad => (resp' = Fail /\ UNCHANGED cstate)
            /\ (~bad /\ NumFree >= n) => resp' = Ok

\* C4: configure-dss fails when the name is already configured, n < 3, the
\* striping unit is below 128, above 2^20 or not a power of two; for every other
\* (numeric) input it succeeds when at least n disks are Free.
C4_ConfigureValidation == [][C4_Step]_vars

C4_Witness ==
    /\ IsConfigure(last)
    /\ last.args[3] = "192"
    /\ resp = Fail
    /\ NumFree >= 3

\* What C5 says of one step: the disks of the decommissioned array's
\* disk-order are Free and selectable, the array is gone from the listing.
C5_Step ==
    (last'.cmd = "decommission-complete" /\ resp'.status = SUCCESS) =>
        LET name == last'.args[1]
            order == DictGet(dss_configs, name).disk_order
        IN  /\ \A i \in 1..Len(order) :
                    /\ StateOf(disks', order[i]) = "Free"
                    /\ order[i] \in SeqToSet(free_disks')
            /\ ~DictHas(dss_configs', name)
            /\ ~DictHas(files', name)
            /\ \A i \in 1..Len(list_lines') :
                    /\ list_lines'[i].kind = "dss" => list_lines'[i].name # name
                    /\ list_lines'[i].kind = "file" => list_lines'[i].dss # name

\* C5 (as claimed): after a successful decommission-complete of A every disk
\* that was in A's disk-order is Free, so that a later configure-dss may select
\* it, and A's configuration and file directory are gone: the listing does
\* not mention A.
C5_DecommissionFreesDisks == [][C5_Step]_vars

\* C6 (as claimed): a disk name goes from InDSS to Free only in a successful
\* decommission-complete of an array whose disk-order contains it, and no
\* other command sequence frees it: so no registered disk named in the
\* disk-order of a configured array is Free.
C6_InArrayNeverFreed ==
    \A i \in 1..Len(dss_configs) :
        \A j \in 1..Len(dss_configs[i].disk_order) :
            StateOf(disks, dss_configs[i].disk_order[j]) # "Free"

\* What C7 says of one step.
C7_Step ==
    \A i \in 1..Len(dss_configs) :
        LET config == dss_configs[i]
        IN  \/ /\ DictHas(dss_configs', config.name)
               /\ DictGet(dss_configs', config.name) = config
            \/ /\ ~DictHas(dss_configs', config.name)
               /\ last' = [cmd |-> "decommission-complete",
                           args |-> <<config.name>>]
               /\ resp' = Ok

\* C7: a configured array keeps its n, striping unit and disk-order for as
\* long as it exists, and only a successful decommission-complete for it
\* removes it.
C7_ArrayImmutable == [][C7_Step]_vars

C7_Witness ==
    /\ last.cmd = "deregister-disk"
    /\ resp = Ok
    /\ \E i \in 1..Len(dss_configs) :
            last.args[1] \in SeqToSet(dss_configs[i].disk_order)

\* C8: every configured array has n >= 3, a striping unit that is a power of
\* two in [128, 2^20], and a disk-order of exactly n pairwise distinct names.
C8_ConfigWellFormed ==
    \A i \in 1..Len(dss_configs) :
        LET config == dss_configs[i]
        IN  /\ config.n >= 3
            /\ config.striping_unit \in ValidUnits
            /\ Len(config.disk_order) = config.n
            /\ Cardinality(SeqToSet(config.disk_order)) = config.n

C8_Witness ==
    \E i \in 1..Len(dss_configs) :
        /\ dss_configs[i].n = 4
        /\ Len(dss_configs[i].disk_order) = 4

\* Position of an array in the configuration dict (0 when absent).
PosOf(configs, name) ==
    IF DictHas(configs, name)
    THEN CHOOSE i \in 1..Len(configs) : configs[i].name = name ELSE 0

\* The arrays are kept in the order they were configured in: the arrays that
\* stay keep their relative order and a newly configured one comes last.
ConfiguredOrderKept ==
    /\ \A i, j \in 1..Len(dss_configs) :
            (/\ i < j
             /\ DictHas(dss_configs', dss_configs[i].name)
             /\ DictHas(dss_configs', dss_configs[j].name))
                => PosOf(dss_configs', dss_configs[i].name)
                        < PosOf(dss_configs', dss_configs[j].name)
    /\ \A k \in 1..Len(dss_configs') :
            ~DictHas(dss_configs, dss_configs'[k].name)
                => k = Len(dss_configs')

\* What C16 says of one step.
C16_Step ==
    /\ ConfiguredOrderKept
    /\ (/\ last'.cmd = "copy"
        /\ Len(last'.args) = 3
        /\ IsNumeric(last'.args[2])) =>
            /\ UNCHANGED cstate
            /\ dss_configs = <<>> => resp' = Fail
            /\ dss_configs # <<>> =>
                LET config == dss_configs[1]
                IN  /\ resp'.status = SUCCESS
                    /\ Len(resp'.parts) = 5 + 3 * config.n
                    /\ resp'.parts[1] = config.name
                    /\ resp'.parts[2] = str(int(last'.args[2]))
                    /\ resp'.parts[3] = str(config.n)
                    /\ resp'.parts[4] = str(config.striping_unit)
                    /\ resp'.parts[5] = str(config.n)
                    /\ \A i \in 1..config.n :
                        LET d == config.disk_order[i]
                        IN  /\ resp'.parts[3 * i + 3] = d
                            /\ DictHas(disks, d)
                            /\ resp'.parts[3 * i + 4] = DictGet(disks, d).address
                            /\ resp'.parts[3 * i + 5]
                                    = str(DictGet(disks, d).c_port)

\* C16 (as claimed): copy fails when no array is configured; otherwise it
\* answers with the earliest-configured array that still exists, its n,
\* striping unit and its disks as (name, address, command-port) triples in
\* disk-order; users, disks, configurations and directories are unchanged.
C16_CopyTargetsFirstArray == [][C16_Step]_vars

\* What C17 says of one step.
C17_Step ==
    /\ (/\ last'.cmd = "decommission-complete"
        /\ Len(last'.args) = 1
        /\ ~DictHas(dss_configs, last'.args[1]))
            => (resp' = Fail /\ UNCHANGED cstate)
    /\ (/\ last.cmd = "decommission-complete"
        /\ resp = Ok
        /\ steps' = steps + 1
        /\ last' = last)
            => /\ resp' = Fail
               /\ UNCHANGED cstate
               /\ \A i \in 1..Len(disks) :
                    disks[i].state = "Free" =>
                        StateOf(disks', disks[i].name) = "Free"

\* C17: decommission-complete of an array that is not configured fails and
\* changes nothing; so a second decommission-complete right after a successful
\* one fails too and the disks the first one freed stay Free.
C17_DecommissionCompleteUnknown == [][C17_Step]_vars

C17_Witness ==
    /\ last = [cmd |-> "decommission-complete", args |-> <<"A">>]
    /\ resp = Fail
    /\ dss_configs = <<>>
    /\ Len(disks) = 3
    /\ NumFree = 3

\* What C18 says of one step.
C18_Step ==
    last'.cmd \in {"read-complete", "disk-failure", "decommission-dss",
                   "recovery-complete"}
        => UNCHANGED cstate

\* C18: read-complete, disk-failure, decommission-dss and recovery-complete
\* never change the coordinator's users, disks, array configurations or file
\* directories: through a failure and recovery the disks of the array stay
\* InDSS.
C18_AdvisoryCommandsChangeNothing == [][C18_Step]_vars

C18_Witness ==
    /\ last = [cmd |-> "recovery-complete", args |-> <<"A", "d1">>]
    /\ resp = Ok
    /\ DictHas(dss_configs, "A")
    /\ "d1" \in SeqToSet(DictGet(dss_configs, "A").disk_order)
    /\ \A i \in 1..Len(disks) : disks[i].state = "InDSS"

\* What C19 says of one step.
C19_Step ==
    (last'.cmd = "deregister-disk" /\ Len(last'.args) = 1) =>
        LET d == last'.args[1]
        IN  /\ ~DictHas(disks, d) => (resp' = Fail /\ UNCHANGED cstate)
            /\ DictHas(disks, d) =>
                /\ resp' = Ok
                /\ ~DictHas(disks', d)
                /\ Len(disks') = Len(disks) - 1
                /\ \A i \in 1..Len(disks) :
                        disks[i].name # d =>
                            /\ DictHas(disks', disks[i].name)
                            /\ DictGet(disks', disks[i].name) = disks[i]
                /\ UNCHANGED <<users, dss_configs, files>>

\* C19: deregister-disk fails for a name that is not registered; otherwise it
\* removes that disk record only: configurations, directories and the other
\* disk records are unchanged, also when the disk is in an array's disk-order.
C19_DeregisterDiskRemovesOnlyRecord == [][C19_Step]_vars

C19_Witness ==
    /\ last.cmd = "deregister-disk"
    /\ resp = Ok
    /\ \E i \in 1..Len(dss_configs) :
            /\ last.args[1] \in SeqToSet(dss_configs[i].disk_order)
            /\ DictHas(files, dss_configs[i].name)
            /\ DictGet(files, dss_configs[i].name).entries # <<>>

\* What C20 says of one step.
C20_Step == resp'.status = FAILURE => UNCHANGED cstate

\* C20: a coordinator command answered with a failure response leaves users,
\* disks, array configurations and file directories as they were.
C20_FailureChangesNothing == [][C20_Step]_vars

C20_Witness ==
    /\ IsConfigure(last)
    /\ int(last.args[2]) = 4
    /\ int(last.args[3]) \in ValidUnits
    /\ resp = Fail
    /\ Len(dss_configs) = 1
    /\ ~DictHas(dss_configs, last.args[1])
    /\ NumFree = 1
    /\ Len(disks) = 4

(***************************************************************************)
(* Properties of the coordinator under concurrent connections.             *)
(***************************************************************************)
\* The connections inside process_command's critical section.
InCritical == {c \in Conns : conns[c].pc \in {"locked", "selected"}}

\* C14: the handlers of concurrent connections run one at a time: at most one
\* connection is inside the critical section and it holds the lock; between
\* the steps of a handler the coordinator state is the one it saw when it
\* took the lock, so every state and response is that of the handlers run one
\* after the other in lock order; no disk is selected by two configure-dss.
C14_Serialized ==
    /\ \A c1, c2 \in InCritical : c1 = c2
    /\ \A c \in InCritical : lock = c /\ cstate = conns[c].seen
    /\ InCritical = {} => lock = 0
    /\ \A i, j \in 1..Len(dss_configs) :
            i # j => SeqToSet(dss_configs[i].disk_order)
                        \cap SeqToSet(dss_configs[j].disk_order) = {}

C14_Witness ==
    /\ conns[1].cmd = "configure-dss"
    /\ conns[2].cmd = "configure-dss"
    /\ conns[1].args[2] = "3"
    /\ conns[2].args[2] = "3"
    /\ conns[1].resp = Ok
    /\ conns[2].waited
    /\ conns[2].resp = Fail
    /\ conns[1].pc = "idle"
    /\ conns[2].pc = "idle"
    /\ NumFree = 1

(***************************************************************************)
(* Properties of a storage node.                                           *)
(***************************************************************************)
\* What C13 says of one step.
C13_Step ==
    /\ \A p \in Ports : failed[p] => failed'[p]
    /\ \A h \in Handlers :
            (/\ handlers[h].late
             /\ handlers[h].pc # "idle"
             /\ handlers'[h] # handlers[h]) =>
                /\ handlers'[h].pc \in {"returned", "idle"}
                /\ handlers'[h].response = NodeResponse(FAIL, <<>>)
                /\ handlers'[h].pc = "idle" =>
                        handlers'[h].resp = NodeResponse(FAIL, <<>>)
                /\ storage' = storage

\* C13: the Failed flag of a node, once set by a fail command, is never
\* cleared, and every command that arrives after it is set (store-block,
\* read-block, get-stripe, fail or any other) is answered FAIL and changes no
\* stored block.
C13_FailedNodeRejectsAll == [][C13_Step]_vars

C13_Witness ==
    /\ failed[TheNode]
    /\ \E h \in Handlers :
            /\ handlers[h].late
            /\ handlers[h].pc = "idle"
            /\ handlers[h].cmd = "store-block"
            /\ handlers[h].args = <<"A", "f1", "1", "parity", "128">>
            /\ handlers[h].resp = NodeResponse(FAIL, <<>>)
    /\ has_stripe(storage[TheNode], <<"A", "f1", "0">>)
    /\ ~has_stripe(storage[TheNode], <<"A", "f1", "1">>)

(***************************************************************************)
(* Properties of the striping helpers and of the write path.               *)
(***************************************************************************)
\* The stripe number whose parity slot is parity_slots[i].
StripeAt(i) == next_stripe - Len(parity_slots) + i - 1

\* C9: for n >= 3 and s >= 0 the parity slot is n - 1 - (s mod n), lies in
\* [0, n), moves back by one (mod n) from a stripe to the next, and over any
\* n consecutive stripes every slot is the parity slot exactly once.
C9_ParityRotation ==
    /\ \A i \in 1..Len(parity_slots) :
        /\ parity_slots[i] \in 0..(total_disks - 1)
        /\ parity_slots[i] = total_disks - 1 - (StripeAt(i) % total_disks)
    /\ \A i \in 1..(Len(parity_slots) - 1) :
        parity_slots[i + 1] =
            (parity_slots[i] - 1 + total_disks) % total_disks
    /\ \A i \in 1..(Len(parity_slots) - total_disks + 1) :
        /\ {parity_slots[j] : j \in i..(i + total_disks - 1)}
                = 0..(total_disks - 1)
        /\ \A j, k \in i..(i + total_disks - 1) :
                parity_slots[j] = parity_slots[k] => j = k

C9_Witness ==
    /\ total_disks = 4
    /\ Len(parity_slots) = 8
    /\ StripeAt(1) = 3
    /\ parity_slots[1] = 0
    /\ parity_slots[2] = 3

\* XOR of a non-empty sequence of bytes.
RECURSIVE XorAll(_)
XorAll(bs) == IF Len(bs) = 1 THEN bs[1] ELSE Xor(bs[1], XorAll(Tail(bs)))

\* The transfers of the last stripe aimed at slot k.
AtSlot(k) == {t \in 1..Len(transfers) : transfers[t].disk_idx = k}

\* The blocks aimed at the slots in ks, in slot order.
RECURSIVE BlocksAt(_)
BlocksAt(ks) ==
    IF ks = {} THEN <<>>
    ELSE LET k == CHOOSE x \in ks : \A y \in ks : x <= y
             t == CHOOSE x \in AtSlot(k) : TRUE
         IN  <<transfers[t].block_data>> \o BlocksAt(ks \ {k})

\* XOR of byte j of the blocks bs[i], bs[i + 1], ...
RECURSIVE XorColumn(_, _, _)
XorColumn(bs, i, j) ==
    IF i = Len(bs) THEN bs[i][j]
    ELSE Xor(bs[i][j], XorColumn(bs, i + 1, j))

\* C10: in every stripe the write path produces, the blocks all have the
\* striping unit's length, the parity block is the byte-wise XOR of the n-1
\* data blocks, and the block of every slot k is the XOR of the blocks of the
\* other n-1 slots.  A byte is the XOR of n-1 others exactly when the XOR of
\* all n is zero, which is how the last conjunct states it for every slot
\* at once, the parity slot included.
C10_ParityInvariant ==
    transfers # <<>> =>
        LET slots == 0..(copy_n - 1)
            parity_slot == get_disk_for_stripe(transfers[1].stripe_num, copy_n)
        IN  /\ \A k \in slots : Cardinality(AtSlot(k)) = 1
            /\ \A t \in 1..Len(transfers) :
                    /\ Len(transfers[t].block_data) = copy_unit
                    /\ (transfers[t].block_type = "parity")
                            <=> (transfers[t].disk_idx = parity_slot)
            /\ LET blocks == BlocksAt(slots)
               IN  \A j \in 1..copy_unit : XorColumn(blocks, 1, j) = 0

C10_Witness ==
    /\ copy_n = 4
    /\ copy_unit = 256
    /\ Len(copy_data) = 1000
    /\ stripe_num = 2
    /\ copy_pc = "copying"
    /\ \E t \in 1..Len(transfers) :
            /\ transfers[t].block_type = "parity"
            /\ transfers[t].disk_idx = 2
            /\ \E j \in 1..copy_unit : transfers[t].block_data[j] # 0

(***************************************************************************)
(* Properties of the client's operations.                                  *)
(***************************************************************************)
\* The blocks a node's storage holds, as (file path, stripe key).
BlockKeys(store) ==
    UNION {{<<store[f].name, store[f].stripes[s].name>> :
                s \in 1..Len(store[f].stripes)} : f \in 1..Len(store)}

\* One iteration of the stripe loop of perform_copy_operation has run.
WroteStripe ==
    /\ copy_pc = "copying"
    /\ copy_pc' \in {"copying", "failed"}
    /\ <<stripe_num, copy_pc>>' # <<stripe_num, copy_pc>>

\* What C15 says of one step.
C15_Step ==
    /\ WroteStripe =>
        /\ (\E k \in 1..copy_n : ~results'[k]) <=> copy_pc' = "failed"
        /\ \A k \in 1..copy_n :
                results'[k] =>
                    <<file_path(copy_dss, copy_name), str(stripe_num)>>
                        \in BlockKeys(storage'[port_of(copy_disks,
                                               transfers'[k].disk_idx)])
    /\ (client.op = "copy" /\ client'.op = "copy") =>
            \A p \in Ports : BlockKeys(storage[p]) \subseteq BlockKeys(storage'[p])
    /\ (client.pc = "copy" /\ copy_pc = "failed" /\ client' # client) =>
        /\ client'.pc = "idle"
        /\ client'.result = "failed"
        /\ UNCHANGED <<cstate, last, steps, completed>>
        /\ storage' = storage
    /\ (client'.op = "copy" /\ ~(client.pc = "copy" /\ copy_pc = "done")) =>
            files' = files

\* C15: a failed store-block transfer fails the copy: the stripe loop stops
\* exactly when some transfer of the stripe failed, the client then reports
\* failure without sending copy-complete, so the directory is what it was
\* before the copy began (a file not in it is neither listed nor readable),
\* and the blocks the nodes stored, of this stripe and of earlier ones, stay
\* stored.
C15_FailedCopyInvisible == [][C15_Step]_vars

C15_Witness ==
    /\ client.op = "copy"
    /\ client.pc = "idle"
    /\ client.result = "failed"
    /\ last.cmd = "copy"
    /\ stripe_num = 1
    /\ ~DictHas(DictGet(files, TheDss).entries, TheFile)
    /\ \E p, q \in Ports :
            /\ <<file_path(TheDss, TheFile), "0">> \in BlockKeys(storage[p])
            /\ <<file_path(TheDss, TheFile), "1">> \in BlockKeys(storage[q])

\* The operation in progress directly follows a copy that stored every block
\* and whose copy-complete the coordinator acknowledged, and none of its own
\* connections to a node was refused or lost.
AfterCompleteCopy ==
    /\ client.prev = [op |-> "copy", result |-> "ok"]
    /\ client.acked
    /\ ~client.lost

\* C11: a file copied into the array through the write path and then read
\* back by its owner comes back as the bytes that were written: the read
\* returns, reports success, and its output is the original content.
C11_RoundTrip ==
    (client.op = "read" /\ AfterCompleteCopy) =>
        /\ client.pc \notin {"blocked", "crashed"}
        /\ client.pc = "idle" =>
                /\ client.result = "ok"
                /\ client.output = client.written

\* The block stored for a stripe of the file on the node at a port, <<>>
\* when the node has none.
BlockAt(p, dss, file, stripe) ==
    LET args == <<dss, file, str(stripe)>>
    IN  IF has_stripe(storage[p], args)
        THEN fromhex(stripe_record(storage[p], args).data)
        ELSE <<>>

\* C12: the failure-recovery operation on an array that holds a file
\* completes, and then every stripe's block at the failed slot is stored
\* there again and equals the XOR of the blocks of the other disks.
C12_RecoveryRestores ==
    (/\ client.op = "recover"
     /\ AfterCompleteCopy
     /\ client.written # <<>>) =>
        /\ client.pc \notin {"blocked", "crashed"}
        /\ client.pc = "idle" =>
            /\ client.result = "ok"
            /\ \A s \in 0..(num_stripes(Len(client.written),
                                        (client.n - 1) * client.striping_unit)
                            - 1) :
                LET k == client.failed_disk_idx
                    others == [j \in 1..(client.n - 1) |->
                                BlockAt(port_of(client.disk_info,
                                                IF j - 1 < k THEN j - 1 ELSE j),
                                        client.dss_name, TheFile, s)]
                IN  /\ has_stripe(storage[port_of(client.disk_info, k)],
                                  <<client.dss_name, TheFile, str(s)>>)
                    /\ BlockAt(port_of(client.disk_info, k),
                               client.dss_name, TheFile, s)
                            = calculate_parity(others)

(***************************************************************************)
(* Properties of the responses the client acts on.                         *)
(***************************************************************************)
\* The words read_file_from_dss looks for in a refusal, in lower case.
OwnerWords == {"owner", "ownership"}

\* read_file_from_dss: the response does not start with SUCCESS and its text
\* holds "ownership" or "owner": the access-denied message is printed.  The
\* text of a refusal is its status token and the tokens after it; no status
\* token holds either word.
prints_access_denied(r) ==
    /\ r.status = FAILURE
    /\ \E i \in 1..Len(r.parts) : r.parts[i] \in OwnerWords

\* The read-initiate just answered named a file of a configured array that
\* another user owns.
NonOwnerRead ==
    /\ last.cmd = "read"
    /\ Len(last.args) = 3
    /\ dss_exists(last.args[1])
    /\ DictHas(files, last.args[1])
    /\ DictHas(DictGet(files, last.args[1]).entries, last.args[2])
    /\ DictGet(DictGet(files, last.args[1]).entries, last.args[2]).owner
            # last.args[3]

\* C21: the response to a read-initiate by a user who does not own the file
\* differs from the response for an unknown array or file: the client prints
\* its access-denied message for a refused read exactly when the reader is
\* not the owner.
C21_NonOwnerDistinguishable ==
    (last.cmd = "read" /\ resp.status = FAILURE) =>
        (prints_access_denied(resp) <=> NonOwnerRead)

\* The blocks a node's storage holds for the files of an array.
BlocksOfArray(store, dss) ==
    {k \in BlockKeys(store) : \E f \in FileNames : k[1] = file_path(dss, f)}

\* C22: the client reports decommission-complete only after every node of
\* the array's disk-order has deleted the blocks it holds for the array: when
\* the coordinator has removed the array on the client's report, no block of
\* the array is left on any of its disks.
C22_DecommissionDeletesBlocks ==
    (/\ client.op = "decommission"
     /\ last.cmd = "decommission-complete"
     /\ resp.status = SUCCESS) =>
        \A d \in 1..Len(client.disk_info) :
            client.disk_info[d].port \in Ports =>
                BlocksOfArray(storage[client.disk_info[d].port],
                              client.dss_name) = {}

(***************************************************************************)
(* Properties of list-files under concurrent connections.                  *)
(***************************************************************************)
\* The listing of a directory: for every array, in configuration order, its
\* descriptor line followed by the lines of its files.
ListingOf(configs, directory) ==
    Flatten([i \in 1..Len(configs) |->
        <<dss_line(configs[i])>> \o
        (IF DictHas(directory, configs[i].name)
         THEN [j \in 1..Len(DictGet(directory, configs[i].name).entries) |->
                file_line(configs[i].name,
                          DictGet(directory, configs[i].name).entries[j])]
         ELSE <<>>)])

\* What C23 says of one step.
C23_Step ==
    \A c \in Conns :
        (/\ conns[c].cmd = "ls"
         /\ conns[c].pc = "locked"
         /\ conns'[c].pc = "returned") =>
            /\ conns'[c].response =
                IF dss_configs = <<>> THEN Fail
                ELSE Response(SUCCESS, <<>>, ListingOf(dss_configs, files))
            /\ conns'[c].response.status = SUCCESS =>
                    Listed(conns'[c].response.lines) = Acknowledged
            /\ cstate = conns[c].seen
            /\ UNCHANGED cstate
            /\ \A o \in Conns \ {c} : conns[o].pc \notin {"locked", "selected"}

\* C23: list-files fails when no array is configured; otherwise its response
\* holds, for every configured array, the descriptor line followed by exactly
\* the files visible in the array, all as of the instant the handler took the
\* lock: no other handler is part-way through a change while the listing is
\* built.
C23_ListingIsSnapshot == [][C23_Step]_vars

C23_Witness ==
    \E c \in Conns :
        /\ conns[c].cmd = "ls"
        /\ conns[c].pc = "idle"
        /\ conns[c].waited
        /\ conns[c].resp.status = SUCCESS
        /\ \E i \in 1..Len(conns[c].resp.lines) :
                conns[c].resp.lines[i].kind = "file"

\* C24: every request the coordinator handles is answered with a success or
\* a failure response; none ends with the connection closed and no response.
C24_EveryRequestAnswered ==
    last.cmd # "" => resp.status \in {SUCCESS, FAILURE}

\* C25: a read-block exchange with an Active node terminates: for every
\* block a node holds, the node's success response of size S is followed by
\* S payload bytes and read_block_from_disk returns them; the client is never
\* left waiting for payload.
C25_ReadBlockTerminates ==
    /\ client.pc # "blocked"
    /\ \A p \in Ports :
        \A k \in BlockKeys(storage[p]) :
            (~failed[p] /\ k[1] = file_path(TheDss, TheFile)) =>
                LET r == disk_process_command(
                            failed[p], storage[p], "read-block",
                            <<TheDss, TheFile, k[2]>>).resp
                    got == read_block_from_disk(p, TheDss, TheFile,
                                                int(k[2]), "ok", FALSE)
                IN  /\ r.status = SUCCESS
                    /\ Len(r.payload) = int(r.parts[1])
                    /\ got.kind = "data"
                    /\ got.data = r.payload

(***************************************************************************)
(* Properties of the write path's threads.                                 *)
(***************************************************************************)
\* C26: whenever a transfer of a later stripe has been started, all n
\* transfers of every earlier stripe have been started and have returned, and
\* each of them returned success: stripes are written one after the other,
\* and none is begun after a stripe with a failed transfer.
C26_StripesSequential ==
    \A j, k \in 1..Len(threads) :
        threads[j].stripe_num < threads[k].stripe_num =>
            /\ threads[j].state = "returned"
            /\ threads[j].ok
            /\ Cardinality(ThreadsOf(threads[j].stripe_num)) = copy_n

C26_Witness ==
    \E j, k \in ThreadsOf(1) :
        /\ threads[j].state = "returned"
        /\ threads[k].state = "started"
        /\ Cardinality(ThreadsOf(0)) = copy_n

\* The parity slot of stripe s in an array of n disks, as specified.
parity_slot(s, n) == n - 1 - (s % n)

\* C27: in every stripe the write path sends data block i to slot i when
\* i < parity_slot(s, n) and to slot i + 1 otherwise, and the parity block to
\* parity_slot(s, n); the slots of the n blocks are the n slots of the array,
\* each once, so that after a stripe whose transfers all succeeded every disk
\* of the disk-order holds one block of it; and the read path fetches data
\* block i from the slot the write path sent it to.
C27_SlotAssignment ==
    transfers # <<>> =>
        LET s == transfers[1].stripe_num
            n == copy_n
        IN  /\ Len(transfers) = n
            /\ \A i \in 0..(n - 2) :
                /\ transfers[i + 1].block_type = "data"
                /\ transfers[i + 1].disk_idx =
                        IF i < parity_slot(s, n) THEN i ELSE i + 1
                /\ read_disk_idx(i, get_disk_for_stripe(s, n))
                        = transfers[i + 1].disk_idx
            /\ transfers[n].block_type = "parity"
            /\ transfers[n].disk_idx = parity_slot(s, n)
            /\ \A d \in 0..(n - 1) :
                Cardinality({k \in 1..n : transfers[k].disk_idx = d}) = 1
            /\ (stripe_num = s + 1 /\ \A k \in 1..n : results[k]) =>
                \A d \in 0..(n - 1) :
                    <<file_path(copy_dss, copy_name), str(s)>>
                        \in BlockKeys(storage[port_of(copy_disks, d)])

C27_Witness ==
    /\ transfers # <<>>
    /\ copy_n = 4
    /\ transfers[1].stripe_num = 1
    /\ stripe_num = 2
    /\ transfers[3].disk_idx = 3
    /\ transfers[4].disk_idx = 2
    /\ \A k \in 1..copy_n : results[k]
    /\ <<file_path(copy_dss, copy_name), "1">>
            \in BlockKeys(storage[port_of(copy_disks, 3)])

(***************************************************************************)
(* Properties of the handlers of one storage node.                         *)
(***************************************************************************)
\* The handlers that are between the load and the save of store_block.
Saving == {h \in Handlers : handlers[h].pc \in {"loaded", "opened"}}

\* The handlers whose store-block was answered SUCCESS.
Stored ==
    {h \in Handlers : /\ handlers[h].pc = "idle"
                      /\ handlers[h].cmd = "store-block"
                      /\ handlers[h].resp.status = SUCCESS}

\* C28: while one handler of a node is between the load and the save of
\* store_block no other handler executes a command, so a read-block never
\* reads a file that was opened for writing and not yet written; and when
\* no save is under way every store-block that was answered SUCCESS is in the
\* file's stripe map, whichever other stripes were stored concurrently.
C28_ConcurrentStoresPersisted ==
    /\ \A h \in Saving, g \in Handlers :
            g # h => handlers[g].pc \notin {"locked", "loaded", "opened"}
    /\ \A g \in Handlers :
            (handlers[g].pc = "locked" /\ handlers[g].cmd = "read-block") =>
                \A f \in 1..Len(storage[TheNode]) :
                    storage[TheNode][f].stripes # <<>>
    /\ Saving = {} =>
            \A g \in Stored : has_stripe(storage[TheNode], handlers[g].args)

C28_Witness ==
    \E h, g \in Handlers :
        /\ handlers[h].pc = "opened"
        /\ handlers[h].args = <<"A", "f1", "1", "parity", "128">>
        /\ has_stripe(<<json_file(file_path("A", "f1"), handlers[h].file_data)>>,
                      <<"A", "f1", "0">>)
        /\ handlers[g].pc = "waiting"
        /\ handlers[g].cmd = "read-block"
        /\ storage[TheNode] = <<empty_file(file_path("A", "f1"))>>

\* What C29 says of one step of a node whose Failed flag is set.
C29_Step ==
    failed[TheNode] =>
        /\ storage'[TheNode] = storage[TheNode]
        /\ \A h \in Handlers :
                (handlers'[h] # handlers[h] /\ handlers'[h].pc = "returned") =>
                    handlers'[h].response.status # SUCCESS

\* C29: once a fail command has set the Failed flag of a node, no handler of
\* the node persists a block or produces a success response, however its
\* flag check, lock acquisition and execution interleave with the fail
\* command's.
C29_NothingAfterFail == [][C29_Step]_vars

(***************************************************************************)
(* Properties of the verified read of one stripe.                          *)
(***************************************************************************)
\* C30: read_stripe_with_verification makes at most 3 attempts and ends by
\* returning: the data blocks, joined, of the first attempt in which all n
\* blocks were read and the recomputed parity equals the parity block, or
\* stripe failure (None) after three attempts that all failed.
C30_VerifiedReadBounded ==
    /\ client.attempt <= 3
    /\ client.pc # "raised"
    /\ (client.pc = "returned" /\ client.result = "data") =>
        /\ Len(client.verified) = client.attempt
        /\ \A a \in 1..Len(client.verified) :
                client.verified[a] <=> a = client.attempt
        /\ \A k \in 1..client.n : client.blocks[k] # NoBlock
        /\ parity_verified(client.blocks, client.n)
        /\ client.output = Flatten([k \in 1..(client.n - 1) |->
                                        client.blocks[k].data])
    /\ (client.pc = "returned" /\ client.result = "None") =>
        /\ client.attempt = 3
        /\ client.verified = <<FALSE, FALSE, FALSE>>

\* The parity invariant of a stripe of n blocks: the blocks have one length
\* and the last is the XOR of the others.
parity_invariant(blocks, n) ==
    /\ \A k \in 1..n : /\ blocks[k] # NoBlock
                       /\ Len(blocks[k].data) = Len(blocks[1].data)
    /\ parity_verified(blocks, n)

\* C31: in an attempt whose n blocks, as read, satisfy the parity invariant
\* and in which one bit of one block (data or parity) was then flipped, the
\* recomputed parity differs from the parity block, and the attempt does not
\* return the stripe's data.
C31_BitFlipDetected ==
    (client.injected /\ parity_invariant(client.clean, client.n)) =>
        /\ client.pc = "injected" => ~parity_verified(client.blocks, client.n)
        /\ ~(client.pc = "returned" /\ client.result = "data")

C31_Witness ==
    /\ client.injected
    /\ parity_invariant(client.clean, client.n)
    /\ client.clean[client.n].data = <<1>>
    /\ client.blocks[client.n].data = <<129>>
    /\ client.pc = "verify"
    /\ client.attempt = 1
    /\ client.verified = <<FALSE>>

(***************************************************************************)
(* Properties of the failure-recovery operation.                           *)
(***************************************************************************)
\* The XOR, byte by byte, of blocks of one length.
XorBlocks(blocks) ==
    [b \in 1..Len(blocks[1]) |->
        XorAll([j \in 1..Len(blocks) |-> blocks[j][b]])]

\* The blocks have one length, as the blocks of a stripe have.
SameLength(blocks) == \A j \in 1..Len(blocks) : Len(blocks[j]) = Len(blocks[1])

\* The type the write path gave the block of stripe s at slot k of an array
\* of n disks: that of the transfer perform_copy_operation builds for the
\* slot.
written_type(s, k, n, unit) ==
    LET ts == stripe_transfers(Zeros((s + 1) * (n - 1) * unit), s, n, unit)
    IN  ts[CHOOSE t \in 1..Len(ts) : ts[t].disk_idx = k].block_type

\* C32: for each stripe s of each file being recovered, the block the client
\* writes to the failed disk's slot k is computed from the n-1 blocks read
\* from the other slots and is their XOR, and it is tagged parity if and only
\* if k is the parity slot of stripe s and data otherwise, which is the type
\* the write path gave the block of that slot.
C32_RecoveredBlock ==
    client.op = "recover" =>
        \A w \in 1..Len(client.recovered) :
            LET r == client.recovered[w]
                k == client.failed_disk_idx
            IN  /\ Len(r.blocks) = client.n - 1
                /\ SameLength(r.blocks) => r.block_data = XorBlocks(r.blocks)
                /\ r.block_type \in {"parity", "data"}
                /\ r.block_type = "parity"
                        <=> k = parity_slot(r.stripe_num, client.n)
                /\ r.block_type = written_type(r.stripe_num, k, client.n,
                                               client.striping_unit)

\* Stripe 0 and stripe 1 of a 300-byte file have been written back to slot 2
\* of 3: the first block is tagged parity, the second data, and the second is
\* the XOR <<1>> of the blocks <<1>> and <<0>> read from slots 0 and 1.
C32_Witness ==
    /\ client.op = "recover"
    /\ client.n = 3
    /\ client.failed_disk_idx = 2
    /\ Len(client.recovered) = 2
    /\ client.recovered[1].stripe_num = 0
    /\ client.recovered[1].block_type = "parity"
    /\ client.recovered[2].stripe_num = 1
    /\ client.recovered[2].block_type = "data"
    /\ client.recovered[2].blocks = << <<1>>, <<0>> >>
    /\ client.recovered[2].block_data = <<1>>

\* The failure-recovery operation has sent recovery-complete.
SentRecoveryComplete ==
    /\ client.op = "recover"
    /\ last.cmd = "recovery-complete"

\* The write-backs the operation has made with success, as (file, stripe).
WrittenBack ==
    {<<client.recovered[w].file_name, client.recovered[w].stripe_num>> :
        w \in {v \in 1..Len(client.recovered) : client.recovered[v].ok}}

ReadEnded ==
    /\ client.op = "read"
    /\ client.pc = "idle"
    /\ \/ last.cmd = "read" /\ resp.status = SUCCESS
       \/ last.cmd = "read-complete"

\* C34: a base read in which every data-slot block of every one of the
\* ceil(T / ((n-1)*U)) stripes was read reports success, has sent
\* read-complete and has put out the first T bytes of the joined data
\* blocks, for every recorded size T (T = 0, no stripe, included); a read in
\* which a block read failed reports failure, with no output and no
\* read-complete.
C34_BaseReadOutput ==
    ReadEnded =>
        IF client.stripe_num >= client_stripes
        THEN /\ client.result = "ok"
             /\ last.cmd = "read-complete"
             /\ client.output = Slice(client.file_data, 0, client.file_size)
        ELSE /\ client.result = "failed"
             /\ last.cmd # "read-complete"
             /\ client.output = <<>>

(***************************************************************************)
(* Properties of the coordinator's arrays and disks.                       *)
(***************************************************************************)
\* The configured arrays whose disk-order holds the disk name d.
ArraysOf(d) ==
    {a \in 1..Len(dss_configs) :
        \E i \in 1..Len(dss_configs[a].disk_order) :
            dss_configs[a].disk_order[i] = d}

\* C35: each disk name is in the disk-order of at most one configured array,
\* after any sequence of register-disk, deregister-disk, configure-dss and
\* decommission-complete.
C35_DiskInOneArray ==
    \A d \in DiskNames : Cardinality(ArraysOf(d)) <= 1

\* C36: every disk name in an array's disk-order is a registered disk in
\* state InDSS, and every registered disk in state InDSS is in some array's
\* disk-order, so that the commands that answer with an array's disks find
\* the record of each.
C36_OrdersAndStatesAgree ==
    /\ \A a \in 1..Len(dss_configs) :
        /\ all_registered(dss_configs[a].disk_order)
        /\ \A i \in 1..Len(dss_configs[a].disk_order) :
            DictGet(disks, dss_configs[a].disk_order[i]).state = "InDSS"
    /\ \A d \in 1..Len(disks) :
        disks[d].state = "InDSS" => ArraysOf(disks[d].name) # {}

(***************************************************************************)
(* Properties of copies that run next to another client's commands.        *)
(***************************************************************************)
\* The node of a registered disk holds a block of the stripe of the file.
DiskHolds(disk_name, dss, file, s) ==
    /\ DictHas(disks, disk_name)
    /\ DictGet(disks, disk_name).c_port \in Ports
    /\ has_stripe(storage[DictGet(disks, disk_name).c_port],
                  <<dss, file, str(s)>>)

\* C37: whenever a file is visible in the directory of array A, every stripe
\* of the copy that made it visible is held by the disks now in A's
\* disk-order, also when another client sent decommission-complete A and
\* configure-dss A between that copy's copy and copy-complete.
C37_VisibleFileOnArrayDisks ==
    \A a \in 1..Len(dss_configs) :
        LET config == dss_configs[a]
            dir == IF DictHas(files, config.name)
                   THEN DictGet(files, config.name).entries ELSE <<>>
        IN  \A f \in 1..Len(dir) :
                \A s \in 0..(num_stripes(dir[f].size,
                                (config.n - 1) * config.striping_unit) - 1) :
                    \A i \in 1..Len(config.disk_order) :
                        DiskHolds(config.disk_order[i], config.name,
                                  dir[f].name, s)

\* The names of the stripes a node stores for the file.
StoredStripes(p, dss, file) ==
    IF DictHas(storage[p], file_path(dss, file))
    THEN LET keys == DictKeys(DictGet(storage[p],
                                      file_path(dss, file)).stripes)
         IN  {keys[j] : j \in 1..Len(keys)}
    ELSE {}

\* Both clients copied the file name into the array, the second client's
\* copy starting while the first client's was in progress, and both copies
\* were completed; no other command was sent.
BothCopied ==
    /\ other.completed
    /\ other.concurrent
    /\ other.commands = 1
    /\ client.op = "copy"
    /\ client.pc = "idle"
    /\ client.result = "ok"
    /\ client.ops = 1
    /\ client.acked

\* The local file of the copy the directory entry records.
RecordedFile(entry) ==
    IF entry.owner = OtherUser THEN OtherFile ELSE client.written

\* C38: after two clients concurrently copied the same file name into the
\* same array, the blocks the disks store for the file are the blocks of one
\* copy, the one recorded in the directory: the stripes of that copy and no
\* others, each block with the type and size that copy sent.
C38_BlocksOfRecordedCopy ==
    BothCopied =>
        LET config == DictGet(dss_configs, TheDss)
            entry == DictGet(DictGet(files, TheDss).entries, TheFile)
            data == RecordedFile(entry)
            count == num_stripes(Len(data),
                                 (config.n - 1) * config.striping_unit)
        IN  \A i \in 1..config.n :
                LET p == DictGet(disks, config.disk_order[i]).c_port
                IN  /\ StoredStripes(p, TheDss, TheFile)
                        = {str(s) : s \in 0..(count - 1)}
                    /\ \A s \in 0..(count - 1) :
                        \E t \in {stripe_transfers(data, s, config.n,
                                    config.striping_unit)[k] :
                                    k \in 1..config.n} :
                            /\ t.disk_idx = i - 1
                            /\ stripe_record(storage[p],
                                   <<TheDss, TheFile, str(s)>>).type
                                = t.block_type
                            /\ stripe_record(storage[p],
                                   <<TheDss, TheFile, str(s)>>).size
                                = Len(t.block_data)

\* The directory entry of the file in the array.
EntryOf(directory, dss, file) ==
    DictGet(DictGet(directory, dss).entries, file)

\* The file is listed in the directory of the array.
Visible(directory, dss, file) ==
    /\ DictHas(directory, dss)
    /\ DictHas(DictGet(directory, dss).entries, file)

\* A step that keeps the file visible in the array lets no user pass the
\* ownership check of read_file who did not pass it before the step.
C39_Step ==
    \A B \in {TheUser, OtherUser} :
        (/\ Visible(files, TheDss, TheFile)
         /\ Visible(files', TheDss, TheFile)
         /\ not_owner(EntryOf(files, TheDss, TheFile), B))
            => not_owner(EntryOf(files', TheDss, TheFile), B)

\* C39: while a file stays visible in an array, no command carrying user
\* name B lets B pass the read ownership check for a file whose recorded
\* owner is A, A different from B: a copy-complete that names B for the
\* existing file does not replace the recorded owner.
C39_OwnerNeverReplaced == [][C39_Step]_vars

\* C40: the copy operation of the client reports success only if the
\* coordinator accepted its copy-complete, the file being visible in the
\* directory afterwards; when the copy-complete is rejected, as after a
\* decommission-complete of the array during the transfer, it reports
\* failure.
C40_SuccessOnlyIfAccepted ==
    (/\ client.op = "copy"
     /\ client.pc = "idle"
     /\ client.result = "ok"
     /\ last.cmd = "copy-complete"
     /\ last.args[3] = TheUser)
        => /\ client.acked
           /\ resp.status = SUCCESS
           /\ Visible(files, last.args[1], last.args[2])

=============================================================================
